---------------------------- MODULE Spec2Model ----------------------------
(***************************************************************************)
(* python-kong: the admin contract (APIs, Consumers, plugin configurations *)
(* of an API) behind its two implementations, the in-memory simulator and  *)
(* the REST client of src/kong/client.py.                                  *)
(*                                                                         *)
(* The stores are the gateway's state.  Every call goes through one        *)
(* implementation: the simulator answers with the store operation's        *)
(* outcome, the client sends the request to a server holding the same      *)
(* stores and turns the response's status code into its own outcome.       *)
(*                                                                         *)
(* Values are integers; Null is Python's None (a key that is not there).   *)
(* Ids come from the store's counter, the caller's values (names, hosts,   *)
(* paths, urls, usernames, ...) from the small sets below.                 *)
(***************************************************************************)
EXTENDS Integers, Sequences, FiniteSets, TLC

\* impl: the implementation the caller was given; apis, consumers, plugins: its
\* records in creation order; nextId: the next id; last: the caller's last call;
\* traversal: the iterate in progress
VARIABLES impl, apis, consumers, plugins, credentials, nextId, last, traversal,
          lock, pending

vars == <<impl, apis, consumers, plugins, credentials, nextId, last, traversal,
          lock, pending>>

---------------------------------------------------------------------------
(* Bounds of the model *)

\* ids the stores hand out before the model stops creating
MaxId == 2
\* records one store holds at most
MaxStore == 2
\* largest page size a list call, and window size an iterate, asks for
MaxSize == 3
\* records the runs on list and iterate keep at a time
MaxListed == 3
\* routes, and plugin configurations, the runs on plugin configurations create
MaxRoutes == 1
MaxConfigs == 2
\* records on the page the server answers to a request without size (100 on the
\* server), scaled so that a store can hold more
CountPage == 2

---------------------------------------------------------------------------
(* Values *)

Null == 0

Urls == {41}

\* what a call that raised returns: nothing
NoRecord == [id |-> Null]
NoPage == [data |-> <<>>, next |-> Null, total |-> Null]
NoReq == [none |-> Null]
NoFilter == <<>>

---------------------------------------------------------------------------
(* EntityStore: records in creation order, unique fields, id or key lookup *)

Range(s) == {s[i] : i \in 1..Len(s)}

Ids(store) == {store[i].id : i \in 1..Len(store)}

\* the unique fields of rec whose non-null value another record (not own) holds
ConflictingFields(store, rec, unique, own) ==
    {f \in unique : /\ f \in DOMAIN rec
                    /\ rec[f] # Null
                    /\ \E i \in 1..Len(store) : /\ store[i].id # own
                                                /\ store[i][f] = rec[f]}

\* the position of the record id_or_key names, by id or by the alternate key; 0 if none
Resolve(store, id_or_key, alt) ==
    IF id_or_key = Null THEN 0
    ELSE IF \E i \in 1..Len(store) : store[i].id = id_or_key
         THEN CHOOSE i \in 1..Len(store) : store[i].id = id_or_key
         ELSE IF \E i \in 1..Len(store) : store[i][alt] = id_or_key
              THEN CHOOSE i \in 1..Len(store) : store[i][alt] = id_or_key
              ELSE 0

\* the patch's fields over the record's; fields the patch leaves out keep their value
Merge(rec, patch) ==
    [f \in DOMAIN rec |-> IF f \in DOMAIN patch THEN patch[f] ELSE rec[f]]

RemoveAt(s, i) == [j \in 1..(Len(s) - 1) |-> IF j < i THEN s[j] ELSE s[j + 1]]

ReplaceAt(s, i, r) == [s EXCEPT ![i] = r]

Outcome(kind, rec, store, fields) ==
    [kind |-> kind, rec |-> rec, store |-> store, fields |-> fields]

StoreInsert(store, rec, unique) ==
    LET c == ConflictingFields(store, rec, unique, Null) IN
    IF c # {} THEN Outcome("ConflictError", NoRecord, store, c)
    ELSE Outcome("ok", rec, Append(store, rec), {})

\* an update that writes the merged record before it finds the conflict
StoreUpdateWritesFirst(store, id_or_key, alt, patch, unique) ==
    LET i == Resolve(store, id_or_key, alt) IN
    IF i = 0 THEN Outcome("NotFoundError", NoRecord, store, {})
    ELSE LET c == ConflictingFields(store, patch, unique, store[i].id)
             r == Merge(store[i], patch) IN
         IF c # {} THEN Outcome("ConflictError", NoRecord, ReplaceAt(store, i, r), c)
         ELSE Outcome("ok", r, ReplaceAt(store, i, r), {})

\* an update that takes the record out and stores the merged one last
StoreUpdateMovesLast(store, id_or_key, alt, patch, unique) ==
    LET i == Resolve(store, id_or_key, alt) IN
    IF i = 0 THEN Outcome("NotFoundError", NoRecord, store, {})
    ELSE LET c == ConflictingFields(store, patch, unique, store[i].id)
             r == Merge(store[i], patch) IN
         IF c # {} THEN Outcome("ConflictError", NoRecord, store, c)
         ELSE Outcome("ok", r,
                      Append(SelectSeq(store, LAMBDA x : x.id # r.id), r), {})

StoreUpdate(store, id_or_key, alt, patch, unique) ==
    LET i == Resolve(store, id_or_key, alt) IN
    IF i = 0 THEN Outcome("NotFoundError", NoRecord, store, {})
    ELSE LET c == ConflictingFields(store, patch, unique, store[i].id)
             r == Merge(store[i], patch) IN
         IF c # {} THEN Outcome("ConflictError", NoRecord, store, c)
         ELSE Outcome("ok", r, ReplaceAt(store, i, r), {})

StoreDelete(store, id_or_key, alt) ==
    LET i == Resolve(store, id_or_key, alt) IN
    IF i = 0 THEN Outcome("NotFoundError", NoRecord, store, {})
    ELSE Outcome("ok", NoRecord, RemoveAt(store, i), {})

StoreGet(store, id_or_key, alt) ==
    LET i == Resolve(store, id_or_key, alt) IN
    IF i = 0 THEN Outcome("NotFoundError", NoRecord, store, {})
    ELSE Outcome("ok", store[i], store, {})

---------------------------------------------------------------------------
(* PaginationCursor: a position in the matching records as an opaque token *)

TokenBase == 100
InvalidPosition == -1

\* a token that points one record too early
EncodeOffsetBefore(position) == TokenBase + position - 1

EncodeOffset(position) == TokenBase + position

\* no token is the start; a token that was never issued decodes to no position
\* decoding that takes a token it cannot read for the start
DecodeOffsetLenient(token) ==
    IF token = Null \/ token <= TokenBase THEN 0 ELSE token - TokenBase

DecodeOffset(token) ==
    IF token = Null THEN 0
    ELSE IF token > TokenBase THEN token - TokenBase
    ELSE InvalidPosition

Matches(rec, filter) == \A f \in DOMAIN filter : rec[f] = filter[f]

Matching(store, filter) == SelectSeq(store, LAMBDA r : Matches(r, filter))

Min(a, b) == IF a < b THEN a ELSE b

Page(data, next, total) == [data |-> data, next |-> next, total |-> total]

\* up to size matching records after the token's position, the token of the rest
\* (none when none is left), and the number of all matching records
\* list that still hands out a token when the window ends at the last record
StoreListNextAtEnd(store, filter, size, offset) ==
    LET m == Matching(store, filter)
        total == Len(m)
        pos == DecodeOffset(offset)
    IN  IF pos = InvalidPosition \/ pos >= total
        THEN Page(<<>>, Null, total)
        ELSE Page(SubSeq(m, pos + 1, Min(pos + size, total)),
                  IF pos + size <= total THEN EncodeOffset(pos + size) ELSE Null,
                  total)

StoreList(store, filter, size, offset) ==
    LET m == Matching(store, filter)
        total == Len(m)
        pos == DecodeOffset(offset)
    IN  IF pos = InvalidPosition \/ pos >= total
        THEN Page(<<>>, Null, total)
        ELSE Page(SubSeq(m, pos + 1, Min(pos + size, total)),
                  IF pos + size < total THEN EncodeOffset(pos + size) ELSE Null,
                  total)

StoreCount(store, filter) == Len(Matching(store, filter))

---------------------------------------------------------------------------
(* The plugin schema registry: plugin name -> the config fields it declares *)

PluginNames == {"rate-limiting", "request-size-limiting"}

PluginSchemaRegistry ==
    [n \in PluginNames |->
        IF n = "rate-limiting" THEN {"second", "minute"}
        ELSE {"allowed_payload_size"}]

---------------------------------------------------------------------------
(* The admin operations on the stores (the simulator; the server the       *)
(* client talks to keeps the same stores and rules)                        *)

ApiUnique == {"name", "inbound_dns"}
ConsumerUnique == {"username", "custom_id"}

ApiFilterFields == {"id", "name", "inbound_dns", "upstream_url"}
ConsumerFilterFields == {"id", "custom_id", "username"}
PluginFilterFields == {"id", "name", "api_id", "consumer_id"}

DefaultSize == 100

ApiRecord(req, id) ==
    [id |-> id, created_at |-> id, name |-> req.name,
     inbound_dns |-> req.inbound_dns, path |-> req.path,
     strip_path |-> req.strip_path, upstream_url |-> req.upstream_url]

\* a route needs a host or a path to match requests by
ApiValid(req) == req.inbound_dns # Null \/ req.path # Null

ApiAdd(store, req, id) ==
    IF ~ApiValid(req) THEN Outcome("InvalidArgumentError", NoRecord, store, {})
    ELSE StoreInsert(store, ApiRecord(req, id), ApiUnique)

ApiUpdate(store, name_or_id, patch) ==
    IF ~(DOMAIN patch \subseteq {"upstream_url", "name", "inbound_dns", "path", "strip_path"})
    THEN Outcome("InvalidArgumentError", NoRecord, store, {})
    ELSE StoreUpdate(store, name_or_id, "name", patch, ApiUnique)

ApiDelete(store, name_or_id) == StoreDelete(store, name_or_id, "name")

ApiRetrieve(store, name_or_id) == StoreGet(store, name_or_id, "name")

ListOutcome(kind, page) == [kind |-> kind, page |-> page]

AdminList(store, allowed, filter, size, offset) ==
    IF ~(DOMAIN filter \subseteq allowed)
    THEN ListOutcome("InvalidArgumentError", NoPage)
    ELSE ListOutcome("ok", StoreList(store, filter, size, offset))

ConsumerRecord(req, id) ==
    [id |-> id, created_at |-> id, username |-> req.username,
     custom_id |-> req.custom_id]

ConsumerCreate(store, req, id) ==
    StoreInsert(store, ConsumerRecord(req, id), ConsumerUnique)

ConsumerUpdate(store, username_or_id, patch) ==
    IF ~(DOMAIN patch \subseteq {"username", "custom_id"})
    THEN Outcome("InvalidArgumentError", NoRecord, store, {})
    ELSE StoreUpdate(store, username_or_id, "username", patch, ConsumerUnique)

ConsumerDelete(store, username_or_id) == StoreDelete(store, username_or_id, "username")

ConsumerRetrieve(store, username_or_id) == StoreGet(store, username_or_id, "username")

---------------------------------------------------------------------------
(* Plugin configurations of one API (apis.plugins(api)): the plugin must   *)
(* be registered, its config keys declared, and the scope (api, plugin,    *)
(* consumer) not taken                                                     *)

PluginRecord(api_id, plugin_name, enabled, consumer_id, fields, id) ==
    [id |-> id, created_at |-> id, api_id |-> api_id, consumer_id |-> consumer_id,
     name |-> plugin_name, enabled |-> enabled, config |-> fields]

\* another configuration (not own) of the same api, plugin and consumer
ScopeTaken(store, api_id, plugin_name, consumer_id, own) ==
    \E i \in 1..Len(store) : /\ store[i].id # own
                             /\ store[i].api_id = api_id
                             /\ store[i].name = plugin_name
                             /\ store[i].consumer_id = consumer_id

\* plugin_name_or_id is an id (a number) or a plugin name (a string)
ById(id) == [id |-> id]
ByName(name) == [name |-> name]

\* the position of the api's configuration named by id, or by plugin name; 0 if none
PluginResolve(store, api_id, plugin_name_or_id) ==
    LET found == {i \in 1..Len(store) :
                     /\ store[i].api_id = api_id
                     /\ IF "id" \in DOMAIN plugin_name_or_id
                        THEN store[i].id = plugin_name_or_id.id
                        ELSE store[i].name = plugin_name_or_id.name}
    IN  IF found # {} THEN CHOOSE i \in found : \A j \in found : i <= j
        ELSE 0

PluginCreate(store, api_id, plugin_name, enabled, consumer_id, fields, id) ==
    IF plugin_name \notin DOMAIN PluginSchemaRegistry
    THEN Outcome("InvalidArgumentError", NoRecord, store, {})
    ELSE IF ~(DOMAIN fields \subseteq PluginSchemaRegistry[plugin_name])
    THEN Outcome("InvalidArgumentError", NoRecord, store, {})
    ELSE IF ScopeTaken(store, api_id, plugin_name, consumer_id, Null)
    THEN Outcome("ConflictError", NoRecord, store, {"name"})
    ELSE LET r == PluginRecord(api_id, plugin_name, enabled, consumer_id, fields, id)
         IN  Outcome("ok", r, Append(store, r), {})

\* enabled is set as given; a consumer_id that is given replaces the stored one;
\* the given config keys replace their values, the other keys stay
PluginUpdate(store, api_id, plugin_name_or_id, enabled, consumer_id, fields) ==
    LET i == PluginResolve(store, api_id, plugin_name_or_id) IN
    IF i = 0 THEN Outcome("NotFoundError", NoRecord, store, {})
    ELSE IF ~(DOMAIN fields \subseteq PluginSchemaRegistry[store[i].name])
    THEN Outcome("InvalidArgumentError", NoRecord, store, {})
    ELSE LET cid == IF consumer_id = Null THEN store[i].consumer_id ELSE consumer_id
             config == [k \in DOMAIN store[i].config \cup DOMAIN fields |->
                           IF k \in DOMAIN fields THEN fields[k] ELSE store[i].config[k]]
             r == [store[i] EXCEPT !.enabled = enabled, !.consumer_id = cid,
                                   !.config = config]
         IN  IF ScopeTaken(store, api_id, store[i].name, cid, store[i].id)
             THEN Outcome("ConflictError", NoRecord, store, {"name"})
             ELSE Outcome("ok", r, ReplaceAt(store, i, r), {})

PluginDelete(store, api_id, plugin_name_or_id) ==
    LET i == PluginResolve(store, api_id, plugin_name_or_id) IN
    IF i = 0 THEN Outcome("NotFoundError", NoRecord, store, {})
    ELSE Outcome("ok", NoRecord, RemoveAt(store, i), {})

PluginCount(store, api_id) == StoreCount(store, [api_id |-> api_id])

---------------------------------------------------------------------------
(* The server the client talks to: the same operations, answered with a    *)
(* status code                                                             *)

StatusCode(kind, success) ==
    CASE kind = "ok" -> success
      [] kind = "ConflictError" -> "CONFLICT"
      [] kind = "NotFoundError" -> "NOT_FOUND"
      [] OTHER -> "BAD_REQUEST"

Response(o, success) ==
    [status_code |-> StatusCode(o.kind, success), json |-> o.rec,
     store |-> o.store, fields |-> o.fields]

ListResponse(o) ==
    [status_code |-> StatusCode(o.kind, "OK"), json |-> o.page]

Raise(error, response) == Outcome(error, NoRecord, response.store, response.fields)

Return(response) == Outcome("ok", response.json, response.store, {})

\* a form that sends a None value as the text "None" (99 stands for that text)
FormDataNoneAsText(req) ==
    [f \in DOMAIN req |-> IF f # "strip_path" /\ req[f] = Null THEN 99 ELSE req[f]]

\* the form a request travels as: a key whose value is None is not sent
FormData(req) ==
    [f \in {g \in DOMAIN req : g = "strip_path" \/ req[g] # Null} |-> req[f]]

\* the server reads a field the form lacks as not given
\* a record as it is returned: a field without a value has no key
Json(rec) ==
    [f \in {g \in DOMAIN rec : g = "strip_path" \/ rec[g] # Null} |-> rec[f]]

ParseForm(data, fields) ==
    [f \in fields |-> IF f \in DOMAIN data THEN data[f] ELSE Null]

\* utils.assert_dict_keys_in: every key of the dict is an allowed one
AssertDictKeysIn(keys, allowed) == keys \subseteq allowed

---------------------------------------------------------------------------
(* The REST client (src/kong/client.py)                                    *)

\* add without the branch on status 409
ClientApiAddNoConflict(store, req, id) ==
    LET data == FormData(req)
        response == Response(ApiAdd(store, ParseForm(data, DOMAIN req), id), "CREATED") IN
    IF response.status_code # "CREATED" THEN Raise("AssertionError", response)
    ELSE Return(response)

ClientApiAdd(store, req, id) ==
    LET data == FormData(req)
        response == Response(ApiAdd(store, ParseForm(data, DOMAIN req), id), "CREATED") IN
    IF response.status_code = "CONFLICT" THEN Raise("ConflictError", response)
    ELSE IF response.status_code # "CREATED" THEN Raise("AssertionError", response)
    ELSE Return(response)

\* update that sends the url only
ClientApiUpdateUrlOnly(store, name_or_id, patch) ==
    IF ~AssertDictKeysIn(DOMAIN patch \ {"upstream_url"},
                         {"name", "inbound_dns", "path", "strip_path"})
    THEN Outcome("InvalidArgumentError", NoRecord, store, {})
    ELSE LET response == Response(
                 ApiUpdate(store, name_or_id, [f \in {"upstream_url"} |-> patch[f]]),
                 "OK") IN
         IF response.status_code # "OK" THEN Raise("AssertionError", response)
         ELSE Return(response)

ClientApiUpdate(store, name_or_id, patch) ==
    IF ~AssertDictKeysIn(DOMAIN patch \ {"upstream_url"},
                         {"name", "inbound_dns", "path", "strip_path"})
    THEN Outcome("InvalidArgumentError", NoRecord, store, {})
    ELSE LET response == Response(ApiUpdate(store, name_or_id, patch), "OK") IN
         IF response.status_code # "OK" THEN Raise("AssertionError", response)
         ELSE Return(response)

\* delete that sends no request
ClientApiDeleteNotSent(store, name_or_id) == Outcome("ok", NoRecord, store, {})

ClientApiDelete(store, name_or_id) ==
    LET response == Response(ApiDelete(store, name_or_id), "NO_CONTENT") IN
    IF response.status_code # "NO_CONTENT" THEN Raise("AssertionError", response)
    ELSE Outcome("ok", NoRecord, response.store, {})

\* retrieve that expects the status add expects
ClientApiRetrieveCreated(store, name_or_id) ==
    LET response == Response(ApiRetrieve(store, name_or_id), "OK") IN
    IF response.status_code # "CREATED" THEN Raise("AssertionError", response)
    ELSE Return(response)

ClientApiRetrieve(store, name_or_id) ==
    LET response == Response(ApiRetrieve(store, name_or_id), "OK") IN
    IF response.status_code # "OK" THEN Raise("AssertionError", response)
    ELSE Return(response)

\* list that never puts the offset into the query
ClientListNoOffset(store, allowed, filter, size, offset) ==
    IF ~AssertDictKeysIn(DOMAIN filter, allowed)
    THEN ListOutcome("InvalidArgumentError", NoPage)
    ELSE LET response == ListResponse(AdminList(store, allowed, filter, size, Null)) IN
         IF response.status_code # "OK" THEN ListOutcome("AssertionError", NoPage)
         ELSE ListOutcome("ok", response.json)

\* the offset goes into the query only when it is truthy
\* list that leaves the filter fields out of the query
ClientListNoFilter(store, allowed, filter, size, offset) ==
    IF ~AssertDictKeysIn(DOMAIN filter, allowed)
    THEN ListOutcome("InvalidArgumentError", NoPage)
    ELSE LET response == ListResponse(
                 AdminList(store, allowed, NoFilter, size,
                           IF offset # Null THEN offset ELSE Null)) IN
         IF response.status_code # "OK" THEN ListOutcome("AssertionError", NoPage)
         ELSE ListOutcome("ok", response.json)

ClientList(store, allowed, filter, size, offset) ==
    IF ~AssertDictKeysIn(DOMAIN filter, allowed)
    THEN ListOutcome("InvalidArgumentError", NoPage)
    ELSE LET response == ListResponse(
                 AdminList(store, allowed, filter, size,
                           IF offset # Null THEN offset ELSE Null)) IN
         IF response.status_code # "OK" THEN ListOutcome("AssertionError", NoPage)
         ELSE ListOutcome("ok", response.json)

\* list that leaves the size out of the query, so that the server takes its default
ClientApiListNoSize(store, filter, size, offset) ==
    ClientList(store, ApiFilterFields, filter, DefaultSize, offset)

ClientApiList(store, filter, size, offset) ==
    ClientList(store, ApiFilterFields, filter, size, offset)

\* count: the first page's total (the length of its data when it has none)
\* count that takes the number of records on the answered page
ClientCountDataOnly(store, filter) ==
    LET result == StoreList(store, filter, CountPage, Null) IN
    Len(result.data)

ClientCount(store, filter) ==
    LET result == StoreList(store, filter, CountPage, Null) IN
    IF "total" \in DOMAIN result THEN result.total ELSE Len(result.data)

ClientApiCount(store) == ClientCount(store, NoFilter)

\* create that leaves custom_id out of the form
ClientConsumerCreateUsernameOnly(store, req, id) ==
    LET data == FormData([username |-> req.username])
        response == Response(ConsumerCreate(store, ParseForm(data, DOMAIN req), id),
                             "CREATED") IN
    IF response.status_code = "CONFLICT" THEN Raise("ConflictError", response)
    ELSE IF response.status_code # "CREATED" THEN Raise("AssertionError", response)
    ELSE Return(response)

ClientConsumerCreate(store, req, id) ==
    LET data == FormData(req)
        response == Response(ConsumerCreate(store, ParseForm(data, DOMAIN req), id),
                             "CREATED") IN
    IF response.status_code = "CONFLICT" THEN Raise("ConflictError", response)
    ELSE IF response.status_code # "CREATED" THEN Raise("AssertionError", response)
    ELSE Return(response)

ClientConsumerUpdate(store, username_or_id, patch) ==
    IF ~AssertDictKeysIn(DOMAIN patch, {"username", "custom_id"})
    THEN Outcome("InvalidArgumentError", NoRecord, store, {})
    ELSE LET response == Response(ConsumerUpdate(store, username_or_id, patch), "OK") IN
         IF response.status_code # "OK" THEN Raise("AssertionError", response)
         ELSE Return(response)

ClientConsumerDelete(store, username_or_id) ==
    LET response == Response(ConsumerDelete(store, username_or_id), "NO_CONTENT") IN
    IF response.status_code # "NO_CONTENT" THEN Raise("AssertionError", response)
    ELSE Outcome("ok", NoRecord, response.store, {})

ClientConsumerRetrieve(store, username_or_id) ==
    LET response == Response(ConsumerRetrieve(store, username_or_id), "OK") IN
    IF response.status_code # "OK" THEN Raise("AssertionError", response)
    ELSE Return(response)

ClientConsumerList(store, filter, size, offset) ==
    ClientList(store, ConsumerFilterFields, filter, size, offset)

ClientConsumerCount(store) == ClientCount(store, NoFilter)

\* the config keys a request of the runs can carry
ConfigKeys ==
    UNION {PluginSchemaRegistry[n] : n \in PluginNames} \cup {"unknown_parameter"}

\* a form that leaves the enabled flag out
PluginFormDataNoEnabled(plugin_name, enabled, consumer_id, fields) ==
    LET values == {"value." \o key : key \in DOMAIN fields}
        sent == {"name"} \cup (IF consumer_id # Null THEN {"consumer_id"} ELSE {})
    IN  [k \in sent \cup values |->
            IF k = "name" THEN plugin_name
            ELSE IF k = "consumer_id" THEN consumer_id
            ELSE fields[CHOOSE key \in DOMAIN fields : "value." \o key = k]]

\* the form of a create: name and enabled, the consumer_id unless it is None, and
\* every config field under the key 'value.<key>'
PluginFormData(plugin_name, enabled, consumer_id, fields) ==
    LET values == {"value." \o key : key \in DOMAIN fields}
        sent == {"name", "enabled"}
                    \cup (IF consumer_id # Null THEN {"consumer_id"} ELSE {})
    IN  [k \in sent \cup values |->
            IF k = "name" THEN plugin_name
            ELSE IF k = "enabled" THEN enabled
            ELSE IF k = "consumer_id" THEN consumer_id
            ELSE fields[CHOOSE key \in DOMAIN fields : "value." \o key = k]]

\* the server reads the config from the 'value.<key>' fields of the form, and a
\* field the form lacks as not given (enabled then takes its default)
PluginCreateRequest(store, api_id, data, id) ==
    PluginCreate(store, api_id, data.name,
                 IF "enabled" \in DOMAIN data THEN data.enabled ELSE TRUE,
                 IF "consumer_id" \in DOMAIN data THEN data.consumer_id ELSE Null,
                 [key \in {c \in ConfigKeys : ("value." \o c) \in DOMAIN data} |->
                     data["value." \o key]],
                 id)

\* create without the branch on status 409
ClientPluginCreateNoConflict(store, api_id, plugin_name, enabled, consumer_id, fields, id) ==
    LET data == PluginFormData(plugin_name, enabled, consumer_id, fields)
        response == Response(PluginCreateRequest(store, api_id, data, id), "CREATED") IN
    IF response.status_code # "CREATED" THEN Raise("AssertionError", response)
    ELSE Return(response)

ClientPluginCreate(store, api_id, plugin_name, enabled, consumer_id, fields, id) ==
    LET data == PluginFormData(plugin_name, enabled, consumer_id, fields)
        response == Response(PluginCreateRequest(store, api_id, data, id), "CREATED") IN
    IF response.status_code = "CONFLICT" THEN Raise("ConflictError", response)
    ELSE IF response.status_code # "CREATED" THEN Raise("AssertionError", response)
    ELSE Return(response)

\* the contract's update is a declaration only: it sends nothing and raises
ContractPluginUpdate(store, plugin_name_or_id, enabled, fields) ==
    Outcome("NotImplementedError", NoRecord, store, {})

\* update hands plugin_name_or_id, consumer_id and the fields to the contract's
\* update; its own enabled argument is dropped
ClientPluginUpdate(store, api_id, plugin_name_or_id, enabled, consumer_id, fields) ==
    ContractPluginUpdate(store, plugin_name_or_id, consumer_id, fields)

ClientPluginDelete(store, api_id, plugin_name_or_id) ==
    LET response == Response(PluginDelete(store, api_id, plugin_name_or_id), "NO_CONTENT") IN
    IF response.status_code # "NO_CONTENT" THEN Raise("AssertionError", response)
    ELSE Outcome("ok", NoRecord, response.store, {})

ClientPluginList(store, api_id, filter, size, offset) ==
    IF ~AssertDictKeysIn(DOMAIN filter, PluginFilterFields)
    THEN ListOutcome("InvalidArgumentError", NoPage)
    ELSE LET response == ListResponse(
                 AdminList(store, PluginFilterFields,
                           [f \in DOMAIN filter \cup {"api_id"} |->
                               IF f = "api_id" THEN api_id ELSE filter[f]],
                           size, IF offset # Null THEN offset ELSE Null)) IN
         IF response.status_code # "OK" THEN ListOutcome("AssertionError", NoPage)
         ELSE ListOutcome("ok", response.json)

ClientPluginCount(store, api_id) == ClientCount(store, [api_id |-> api_id])

---------------------------------------------------------------------------
(* The contract both implementations share: each call goes to the          *)
(* implementation's own method; create_or_update and iterate are built on  *)
(* them                                                                    *)

ApisAdd(via, store, req, id) ==
    IF via = "client" THEN ClientApiAdd(store, req, id) ELSE ApiAdd(store, req, id)

ApisUpdate(via, store, name_or_id, patch) ==
    IF via = "client" THEN ClientApiUpdate(store, name_or_id, patch)
    ELSE ApiUpdate(store, name_or_id, patch)

ApisDelete(via, store, name_or_id) ==
    IF via = "client" THEN ClientApiDelete(store, name_or_id)
    ELSE ApiDelete(store, name_or_id)

ApisRetrieve(via, store, name_or_id) ==
    IF via = "client" THEN ClientApiRetrieve(store, name_or_id)
    ELSE ApiRetrieve(store, name_or_id)

ApisList(via, store, filter, size, offset) ==
    IF via = "client" THEN ClientApiList(store, filter, size, offset)
    ELSE AdminList(store, ApiFilterFields, filter, size, offset)

\* iterate: one window of the traversal t: list(size=window_size, offset=the token
\* the window before returned); the records are yielded in order, and the traversal
\* is done when the window has no next token
ApisIterate(via, store, t) ==
    LET o == ApisList(via, store, t.filter, t.window_size, t.next) IN
    IF o.kind # "ok" THEN [t EXCEPT !.state = "failed"]
    ELSE [t EXCEPT !.found = t.found \o o.page.data,
                   !.next = o.page.next,
                   !.state = IF o.page.next = Null THEN "done" ELSE "running"]

\* count(**filters): the client's count(self) takes no keyword argument
ApisCountWith(via, store, filter) ==
    IF via = "client"
    THEN IF DOMAIN filter # {} THEN ListOutcome("TypeError", NoPage)
         ELSE ListOutcome("ok", Page(<<>>, Null, ClientApiCount(store)))
    ELSE IF ~(DOMAIN filter \subseteq ApiFilterFields)
         THEN ListOutcome("InvalidArgumentError", NoPage)
         ELSE ListOutcome("ok", Page(<<>>, Null, StoreCount(store, filter)))

ApisCount(via, store) ==
    IF via = "client" THEN ClientApiCount(store) ELSE StoreCount(store, NoFilter)

ConsumersCreate(via, store, req, id) ==
    IF via = "client" THEN ClientConsumerCreate(store, req, id)
    ELSE ConsumerCreate(store, req, id)

ConsumersUpdate(via, store, username_or_id, patch) ==
    IF via = "client" THEN ClientConsumerUpdate(store, username_or_id, patch)
    ELSE ConsumerUpdate(store, username_or_id, patch)

\* consumers.basic_auth(consumer).create(username=, password=): the simulator
\* stores a credential owned by the Consumer; ConsumerAdminClient has no
\* basic_auth, key_auth or oauth2
BasicAuthCreate(via, store, owners, username_or_id, req, id) ==
    IF via = "client" THEN Outcome("AttributeError", NoRecord, store, {})
    ELSE LET i == Resolve(owners, username_or_id, "username") IN
         IF i = 0 THEN Outcome("NotFoundError", NoRecord, store, {})
         ELSE StoreInsert(store, [id |-> id, created_at |-> id,
                                  consumer_id |-> owners[i].id,
                                  username |-> req.username], {})

ConsumersDelete(via, store, username_or_id) ==
    IF via = "client" THEN ClientConsumerDelete(store, username_or_id)
    ELSE ConsumerDelete(store, username_or_id)

ConsumersRetrieve(via, store, username_or_id) ==
    IF via = "client" THEN ClientConsumerRetrieve(store, username_or_id)
    ELSE ConsumerRetrieve(store, username_or_id)

ConsumersCount(via, store) ==
    IF via = "client" THEN ClientConsumerCount(store) ELSE StoreCount(store, NoFilter)

PluginsCreate(via, store, api_id, plugin_name, enabled, consumer_id, fields, id) ==
    IF via = "client"
    THEN ClientPluginCreate(store, api_id, plugin_name, enabled, consumer_id, fields, id)
    ELSE PluginCreate(store, api_id, plugin_name, enabled, consumer_id, fields, id)

PluginsUpdate(via, store, api_id, plugin_name_or_id, enabled, consumer_id, fields) ==
    IF via = "client"
    THEN ClientPluginUpdate(store, api_id, plugin_name_or_id, enabled, consumer_id, fields)
    ELSE PluginUpdate(store, api_id, plugin_name_or_id, enabled, consumer_id, fields)

PluginsDelete(via, store, api_id, plugin_name_or_id) ==
    IF via = "client" THEN ClientPluginDelete(store, api_id, plugin_name_or_id)
    ELSE PluginDelete(store, api_id, plugin_name_or_id)

PluginsCount(via, store, api_id) ==
    IF via = "client" THEN ClientPluginCount(store, api_id)
    ELSE PluginCount(store, api_id)

\* the fields a request supplies (strip_path only when set)
PatchOf(req) ==
    [f \in {g \in DOMAIN req : IF g = "strip_path" THEN req[g] ELSE req[g] # Null} |-> req[f]]

\* add_or_update: no api_id adds, an api_id updates that record
\* add_or_update that adds whether or not an id is given
ApisAddOrUpdateAlwaysAdds(via, store, api_id, req, id) ==
    ApisAdd(via, store, req, id)

ApisAddOrUpdate(via, store, api_id, req, id) ==
    IF api_id = Null THEN ApisAdd(via, store, req, id)
    ELSE ApisUpdate(via, store, api_id, PatchOf(req))

ConsumersCreateOrUpdate(via, store, consumer_id, req, id) ==
    IF consumer_id = Null THEN ConsumersCreate(via, store, req, id)
    ELSE ConsumersUpdate(via, store, consumer_id, PatchOf(req))

PluginsCreateOrUpdate(via, store, api_id, plugin_name, plugin_configuration_id, enabled, consumer_id, fields, id) ==
    IF plugin_configuration_id = Null
    THEN PluginsCreate(via, store, api_id, plugin_name, enabled, consumer_id, fields, id)
    ELSE PluginsUpdate(via, store, api_id, ById(plugin_configuration_id), enabled,
                       consumer_id, fields)

---------------------------------------------------------------------------
(* What the caller sees of its last call, and the traversal of an iterate  *)

\* op: the method called; kind: "ok" or the exception raised; rec: the record
\* returned; key: the id_or_key argument; req: the fields passed; page: what list
\* returned; pre: count() before the call; prev: the earlier page when the call
\* passes the token the last list call returned (cont)
NoCall ==
    [op |-> "none", kind |-> "ok", rec |-> NoRecord,
     key |-> Null, req |-> NoReq, page |-> NoPage, pre |-> 0,
     filter |-> NoFilter, size |-> 0, offset |-> Null, prev |-> <<>>, cont |-> FALSE,
     api |-> Null, fields |-> {}]

Call(op, o, key, req, pre) ==
    [NoCall EXCEPT !.op = op, !.kind = o.kind, !.rec = o.rec,
                   !.key = key, !.req = req, !.pre = pre, !.fields = o.fields]

Idle ==
    [state |-> "idle", filter |-> NoFilter, window_size |-> 0,
     next |-> Null, found |-> <<>>, clean |-> TRUE, start |-> {}]

\* a change of the store while a traversal runs
Touch(t) == IF t.state # "idle" THEN [t EXCEPT !.clean = FALSE] ELSE t

\* the callers that share the stores
Callers == {1, 2}

Init ==
    /\ impl \in {"simulator", "client"}
    /\ apis = <<>>
    /\ consumers = <<>>
    /\ plugins = <<>>
    /\ credentials = <<>>
    /\ nextId = 1
    /\ last = NoCall
    /\ traversal = Idle
    /\ lock = Null
    /\ pending = [c \in Callers |-> [pc |-> "idle", req |-> NoReq, seen |-> <<>>,
                                      free |-> FALSE, kind |-> "none"]]

---------------------------------------------------------------------------
(* The calls on apis                                                       *)

\* a request names the route (or not) and matches by host or, failing that, by path
ApiRequests ==
    [name : {Null, 11, 12}, inbound_dns : {21, 22}, path : {Null},
     strip_path : {FALSE}, upstream_url : Urls]
    \cup [name : {Null, 11}, inbound_dns : {Null}, path : {Null, 31},
          strip_path : {FALSE}, upstream_url : Urls]

ApiPatches ==
    [upstream_url : Urls]
    \cup [upstream_url : Urls, name : {12}]
    \cup [upstream_url : Urls, inbound_dns : {22}]

ApiKeys == (1..MaxId) \cup {11}

ApiAddCall(req) ==
    /\ LET o == ApisAdd(impl, apis, req, nextId) IN
       /\ apis' = o.store
       /\ nextId' = IF o.kind = "ok" THEN nextId + 1 ELSE nextId
       /\ last' = Call("apis.add", o, Null, req, ApisCount(impl, apis))
    /\ traversal' = Touch(traversal)
    /\ UNCHANGED <<impl, lock, pending, credentials, consumers, plugins>>

ApiUpdateCall(name_or_id, patch) ==
    /\ LET o == ApisUpdate(impl, apis, name_or_id, patch) IN
       /\ apis' = o.store
       /\ last' = Call("apis.update", o, name_or_id, patch, ApisCount(impl, apis))
    /\ traversal' = Touch(traversal)
    /\ UNCHANGED <<impl, lock, pending, credentials, consumers, plugins, nextId>>

ApiDeleteCall(name_or_id) ==
    /\ LET o == ApisDelete(impl, apis, name_or_id) IN
       /\ apis' = o.store
       /\ last' = Call("apis.delete", o, name_or_id, NoReq, ApisCount(impl, apis))
    /\ traversal' = Touch(traversal)
    /\ UNCHANGED <<impl, lock, pending, credentials, consumers, plugins, nextId>>

ApiRetrieveCall(name_or_id) ==
    /\ LET o == ApisRetrieve(impl, apis, name_or_id) IN
       /\ apis' = o.store
       /\ last' = Call("apis.retrieve", o, name_or_id, NoReq, ApisCount(impl, apis))
    /\ UNCHANGED <<impl, lock, pending, credentials, consumers, plugins, nextId, traversal>>

ApiAddOrUpdateCall(api_id, req) ==
    /\ LET o == ApisAddOrUpdate(impl, apis, api_id, req, nextId) IN
       /\ apis' = o.store
       /\ nextId' = IF o.kind = "ok" /\ api_id = Null THEN nextId + 1 ELSE nextId
       /\ last' = Call("apis.add_or_update", o, api_id, req, ApisCount(impl, apis))
    /\ traversal' = Touch(traversal)
    /\ UNCHANGED <<impl, lock, pending, credentials, consumers, plugins>>

---------------------------------------------------------------------------
(* The calls on consumers                                                  *)

ConsumerRequests ==
    [username : {Null, 51, 52}, custom_id : {Null, 61, 62}]

ConsumerPatches ==
    [username : {52}] \cup [custom_id : {62}]
    \cup [username : {51, 52}, custom_id : {62}]

ConsumerKeys == (1..MaxId) \cup {51}

ConsumerCreateCall(req) ==
    /\ LET o == ConsumersCreate(impl, consumers, req, nextId) IN
       /\ consumers' = o.store
       /\ nextId' = IF o.kind = "ok" THEN nextId + 1 ELSE nextId
       /\ last' = Call("consumers.create", o, Null, req, ConsumersCount(impl, consumers))
    /\ UNCHANGED <<impl, lock, pending, credentials, apis, plugins, traversal>>

ConsumerUpdateCall(username_or_id, patch) ==
    /\ LET o == ConsumersUpdate(impl, consumers, username_or_id, patch) IN
       /\ consumers' = o.store
       /\ last' = Call("consumers.update", o, username_or_id, patch, ConsumersCount(impl, consumers))
    /\ UNCHANGED <<impl, lock, pending, credentials, apis, plugins, nextId, traversal>>

\* a delete that takes the Consumer's plugin configurations and credentials with it
ConsumerDeleteCallCascading(username_or_id) ==
    /\ LET o == ConsumersDelete(impl, consumers, username_or_id)
           i == Resolve(consumers, username_or_id, "username")
           gone == IF i = 0 \/ o.kind # "ok" THEN Null ELSE consumers[i].id
           Others(r) == gone = Null \/ r.consumer_id # gone IN
       /\ consumers' = o.store
       /\ plugins' = SelectSeq(plugins, Others)
       /\ credentials' = SelectSeq(credentials, Others)
       /\ last' = Call("consumers.delete", o, username_or_id, NoReq, ConsumersCount(impl, consumers))
    /\ UNCHANGED <<impl, lock, pending, apis, nextId, traversal>>

ConsumerDeleteCall(username_or_id) ==
    /\ LET o == ConsumersDelete(impl, consumers, username_or_id) IN
       /\ consumers' = o.store
       /\ last' = Call("consumers.delete", o, username_or_id, NoReq, ConsumersCount(impl, consumers))
    /\ UNCHANGED <<impl, lock, pending, credentials, apis, plugins, nextId, traversal>>

BasicAuthCreateCall(username_or_id, req) ==
    /\ LET o == BasicAuthCreate(impl, credentials, consumers, username_or_id, req, nextId) IN
       /\ credentials' = o.store
       /\ nextId' = IF o.kind = "ok" THEN nextId + 1 ELSE nextId
       /\ last' = Call("basic_auth.create", o, username_or_id, req, Len(credentials))
    /\ UNCHANGED <<impl, lock, pending, apis, consumers, plugins, traversal>>

ConsumerRetrieveCall(username_or_id) ==
    /\ LET o == ConsumersRetrieve(impl, consumers, username_or_id) IN
       /\ consumers' = o.store
       /\ last' = Call("consumers.retrieve", o, username_or_id, NoReq, ConsumersCount(impl, consumers))
    /\ UNCHANGED <<impl, lock, pending, credentials, apis, plugins, nextId, traversal>>

ConsumerCreateOrUpdateCall(consumer_id, req) ==
    /\ LET o == ConsumersCreateOrUpdate(impl, consumers, consumer_id, req, nextId) IN
       /\ consumers' = o.store
       /\ nextId' = IF o.kind = "ok" /\ consumer_id = Null THEN nextId + 1 ELSE nextId
       /\ last' = Call("consumers.create_or_update", o, consumer_id, req, ConsumersCount(impl, consumers))
    /\ UNCHANGED <<impl, lock, pending, credentials, apis, plugins, traversal>>

---------------------------------------------------------------------------
(* The calls on the plugin configurations of a route                       *)

\* what create is called with: a plugin name, the enabled flag and config fields
\* (a key the plugin's schema lacks, and a plugin the registry lacks, among them)
PluginRequests ==
    [plugin_name : {"rate-limiting"}, enabled : {TRUE},
     fields : {[second |-> 20], [unknown_parameter |-> 20]}]
    \cup [plugin_name : {"unknown_plugin"}, enabled : {TRUE},
          fields : {[second |-> 20]}]

\* what update is called with
PluginPatches ==
    [enabled : {FALSE}, fields : {[second |-> 27], [unknown_parameter |-> 27]}]

\* plugin_name_or_id: the id, or the plugin name, of a stored configuration
PluginKeys ==
    {ById(plugins[i].id) : i \in 1..Len(plugins)}
    \cup {ByName(plugins[i].name) : i \in 1..Len(plugins)}

WithConsumer(req, consumer_id) ==
    [f \in DOMAIN req \cup {"consumer_id"} |->
        IF f = "consumer_id" THEN consumer_id ELSE req[f]]

PluginCall(op, o, api_id, key, req) ==
    [Call(op, o, key, req, PluginsCount(impl, plugins, api_id)) EXCEPT !.api = api_id]

\* create(plugin_name, enabled=True, consumer_id=None, **fields): the enabled flag
\* of a call that gives none
EnabledArg(req) == IF "enabled" \in DOMAIN req THEN req.enabled ELSE TRUE

PluginCreateCall(api_id, consumer_id, req) ==
    /\ LET o == PluginsCreate(impl, plugins, api_id, req.plugin_name, EnabledArg(req),
                              consumer_id, req.fields, nextId) IN
       /\ plugins' = o.store
       /\ nextId' = IF o.kind = "ok" THEN nextId + 1 ELSE nextId
       /\ last' = PluginCall("plugins.create", o, api_id, Null,
                             WithConsumer(req, consumer_id))
    /\ UNCHANGED <<impl, lock, pending, credentials, apis, consumers, traversal>>

PluginUpdateCall(api_id, plugin_name_or_id, consumer_id, patch) ==
    /\ LET o == PluginsUpdate(impl, plugins, api_id, plugin_name_or_id, patch.enabled,
                              consumer_id, patch.fields) IN
       /\ plugins' = o.store
       /\ last' = PluginCall("plugins.update", o, api_id, plugin_name_or_id,
                             WithConsumer(patch, consumer_id))
    /\ UNCHANGED <<impl, lock, pending, credentials, apis, consumers, nextId, traversal>>

PluginDeleteCall(api_id, plugin_name_or_id) ==
    /\ LET o == PluginsDelete(impl, plugins, api_id, plugin_name_or_id) IN
       /\ plugins' = o.store
       /\ last' = PluginCall("plugins.delete", o, api_id, plugin_name_or_id, NoReq)
    /\ UNCHANGED <<impl, lock, pending, credentials, apis, consumers, nextId, traversal>>

PluginCreateOrUpdateCall(api_id, plugin_configuration_id, consumer_id, req) ==
    /\ LET o == PluginsCreateOrUpdate(impl, plugins, api_id, req.plugin_name,
                                      plugin_configuration_id, req.enabled,
                                      consumer_id, req.fields, nextId) IN
       /\ plugins' = o.store
       /\ nextId' = IF o.kind = "ok" /\ plugin_configuration_id = Null
                    THEN nextId + 1 ELSE nextId
       /\ last' = PluginCall("plugins.create_or_update", o, api_id,
                             plugin_configuration_id, WithConsumer(req, consumer_id))
    /\ UNCHANGED <<impl, lock, pending, credentials, apis, consumers, traversal>>

---------------------------------------------------------------------------
(* The calls that read the collection of APIs: list, and iterate window by *)
(* window                                                                  *)

\* list(size, offset, **filter); prev holds the pages before, when offset is the
\* token the list call before returned
ApiListCall(filter, size, offset, prev, cont) ==
    /\ LET o == ApisList(impl, apis, filter, size, offset) IN
       last' = [NoCall EXCEPT !.op = "apis.list", !.kind = o.kind, !.page = o.page,
                              !.filter = filter, !.size = size, !.offset = offset,
                              !.prev = prev, !.cont = cont,
                              !.pre = ApisCount(impl, apis)]
    /\ traversal' = Idle
    /\ UNCHANGED <<impl, lock, pending, credentials, apis, consumers, plugins, nextId>>

\* iterate(window_size, **filter): a fresh traversal, nothing fetched yet
ApiCountCall(filter) ==
    /\ LET o == ApisCountWith(impl, apis, filter) IN
       last' = [NoCall EXCEPT !.op = "apis.count", !.kind = o.kind, !.page = o.page,
                              !.filter = filter, !.pre = ApisCount(impl, apis)]
    /\ traversal' = Idle
    /\ UNCHANGED <<impl, lock, pending, credentials, apis, consumers, plugins, nextId>>

ApiIterateCall(filter, window_size) ==
    /\ traversal' = [Idle EXCEPT !.state = "running", !.filter = filter,
                                 !.window_size = window_size]
    /\ last' = [NoCall EXCEPT !.op = "apis.iterate", !.filter = filter,
                              !.size = window_size, !.pre = ApisCount(impl, apis)]
    /\ UNCHANGED <<impl, lock, pending, credentials, apis, consumers, plugins, nextId>>

\* iterate, with the ids stored when it was called kept beside the traversal
ApiIterateNoted(filter, window_size) ==
    /\ traversal' = [Idle EXCEPT !.state = "running", !.filter = filter,
                                 !.window_size = window_size, !.start = Ids(apis)]
    /\ last' = [NoCall EXCEPT !.op = "apis.iterate", !.filter = filter,
                              !.size = window_size, !.pre = ApisCount(impl, apis)]
    /\ UNCHANGED <<impl, lock, pending, credentials, apis, consumers, plugins, nextId>>

\* the traversal fetches its next window
ApiIterateStep ==
    /\ traversal.state = "running"
    /\ traversal' = ApisIterate(impl, apis, traversal)
    /\ UNCHANGED <<impl, lock, pending, credentials, apis, consumers, plugins, nextId, last>>

---------------------------------------------------------------------------
(* The admin of APIs and Consumers under both implementations             *)

\* the stores of APIs and of Consumers are independent (no call on one reads or
\* writes the other): a run fills one of them at a time
CanCreate == nextId <= MaxId /\ Len(apis) + Len(consumers) + Len(plugins) < MaxStore

Next ==
    \/ \E req \in ApiRequests :
           consumers = <<>> /\ CanCreate /\ ApiAddCall(req)
    \/ \E k \in ApiKeys, patch \in ApiPatches :
           consumers = <<>> /\ ApiUpdateCall(k, patch)
    \/ \E k \in ApiKeys : consumers = <<>> /\ ApiDeleteCall(k)
    \/ \E k \in ApiKeys : consumers = <<>> /\ ApiRetrieveCall(k)
    \/ \E k \in {Null} \cup (1..MaxId), req \in ApiRequests :
           /\ consumers = <<>> /\ (k = Null => CanCreate)
           /\ req.name # Null /\ req.inbound_dns # Null
           /\ ApiAddOrUpdateCall(k, req)
    \/ \E req \in ConsumerRequests :
           apis = <<>> /\ CanCreate /\ ConsumerCreateCall(req)
    \/ \E k \in ConsumerKeys, patch \in ConsumerPatches :
           apis = <<>> /\ ConsumerUpdateCall(k, patch)
    \/ \E k \in ConsumerKeys : apis = <<>> /\ ConsumerDeleteCall(k)
    \/ \E k \in ConsumerKeys : apis = <<>> /\ ConsumerRetrieveCall(k)
    \/ \E k \in {Null} \cup (1..MaxId), req \in ConsumerRequests :
           /\ apis = <<>> /\ (k = Null => CanCreate)
           /\ req.username # Null /\ req.custom_id # Null
           /\ ConsumerCreateOrUpdateCall(k, req)

Spec == Init /\ [][Next]_vars

---------------------------------------------------------------------------
(* Properties of the admin of APIs and Consumers                           *)

ApiOps == {"apis.add", "apis.update", "apis.delete", "apis.retrieve",
           "apis.add_or_update"}

\* the store, its unique fields and its count() for the admin the last call was on
CalledStore == IF last.op \in ApiOps THEN apis ELSE consumers

CalledUnique == IF last.op \in ApiOps THEN ApiUnique ELSE ConsumerUnique

CalledCount ==
    IF last.op \in ApiOps THEN ApisCount(impl, apis)
    ELSE ConsumersCount(impl, consumers)

\* the unique fields whose value in the last request a stored record holds (a
\* record other than the one the call returned)
Colliding ==
    {f \in CalledUnique :
        /\ last.req[f] # Null
        /\ \E i \in 1..Len(CalledStore) : /\ CalledStore[i].id # last.rec.id
                                          /\ CalledStore[i][f] = last.req[f]}

IsCreate == last.op \in {"apis.add", "consumers.create"}

\* an API request names a host or a path
WellFormed == last.op = "apis.add" => (last.req.inbound_dns # Null \/ last.req.path # Null)

\* C1, as claimed (of the simulator): a create whose non-null unique value is that
\* of a stored record fails with ConflictError, returns no record and leaves count()
\* unchanged; every other create succeeds.
C1_AsClaimed ==
    (impl = "simulator" /\ IsCreate) =>
        /\ Colliding # {} => /\ last.kind = "ConflictError"
                             /\ last.rec = NoRecord
                             /\ CalledCount = last.pre
        /\ Colliding = {} => last.kind = "ok"

\* C1, amended: of the creates that name the fields their resource requires (an API
\* its inbound_dns or its path), one whose non-null unique value (API: name,
\* inbound_dns; Consumer: username, custom_id) is that of a stored record fails with
\* ConflictError, returns no record and leaves count() unchanged, and one whose
\* unique values all differ from every stored record's succeeds.
C1_CreateConflict ==
    (IsCreate /\ WellFormed) =>
        /\ Colliding # {} => /\ last.kind = "ConflictError"
                             /\ last.rec = NoRecord
                             /\ CalledCount = last.pre
        /\ Colliding = {} => /\ last.kind = "ok"
                             /\ last.rec.id # Null
                             /\ CalledCount = last.pre + 1

\* a create through the client that repeated a stored record's inbound_dns under
\* another name, and was refused
C1_Witness ==
    /\ impl = "client"
    /\ last.op = "apis.add"
    /\ last.kind = "ConflictError"
    /\ Colliding = {"inbound_dns"}
    /\ Len(apis) = 1

\* C2: an absent unique key never causes a conflict: two stored records share a
\* unique field's value only if it is null, and a create is refused as a conflict
\* only over a field it gave a non-null value that a stored record holds (so any
\* number of Consumers without username, or APIs without name, can be created).
C2_NullKeysNeverCollide ==
    /\ \A i, j \in 1..Len(apis) : \A f \in ApiUnique :
           (i # j /\ apis[i][f] = apis[j][f]) => apis[i][f] = Null
    /\ \A i, j \in 1..Len(consumers) : \A f \in ConsumerUnique :
           (i # j /\ consumers[i][f] = consumers[j][f]) => consumers[i][f] = Null
    /\ (IsCreate /\ last.kind = "ConflictError") =>
           (Colliding # {} /\ last.fields = Colliding)
    /\ (IsCreate /\ WellFormed /\ \A f \in CalledUnique : last.req[f] = Null) =>
           last.kind = "ok"

\* two Consumers stored without username, the second just created through the client
C2_Witness ==
    /\ impl = "client"
    /\ last.op = "consumers.create" /\ last.kind = "ok"
    /\ Len(consumers) = 2
    /\ consumers[1].username = Null /\ consumers[2].username = Null
    /\ consumers[2] = last.rec

\* the records retrieve returns for the stored record r, by id and by its other key
ById3(r) ==
    IF "name" \in DOMAIN r THEN ApisRetrieve(impl, apis, r.id)
    ELSE ConsumersRetrieve(impl, consumers, r.id)

ByKey3(r) ==
    IF "name" \in DOMAIN r THEN ApisRetrieve(impl, apis, r.name)
    ELSE ConsumersRetrieve(impl, consumers, r.username)

AltKey(r) == IF "name" \in DOMAIN r THEN r.name ELSE r.username

\* every stored record is what retrieve returns for its id and for its name /
\* username; a create returns the record it stored
C3_Retrievable ==
    /\ \A r \in Range(apis) \cup Range(consumers) :
           /\ ById3(r).kind = "ok" /\ ById3(r).rec = r
           /\ AltKey(r) # Null => (ByKey3(r).kind = "ok" /\ ByKey3(r).rec = ById3(r).rec)
    /\ (last.op \in {"apis.retrieve", "consumers.retrieve"} /\ last.kind = "ok") =>
           /\ last.rec \in Range(CalledStore)
           /\ last.key \in {last.rec.id, AltKey(last.rec)}
    /\ (IsCreate /\ last.kind = "ok") => last.rec \in Range(CalledStore)

\* a call that is no update leaves every stored record as it is, or removes it
C3_OnlyUpdateChanges ==
    last'.op \notin {"apis.update", "apis.add_or_update", "consumers.update",
                     "consumers.create_or_update"} =>
        /\ \A r \in Range(apis) : r \in Range(apis') \/ r.id \notin Ids(apis')
        /\ \A r \in Range(consumers) :
               r \in Range(consumers') \/ r.id \notin Ids(consumers')

C8_AsClaimed ==
    last.op = "apis.add" =>
        /\ (last.req.inbound_dns = Null /\ last.req.path = Null) =>
               /\ last.kind = "InvalidArgumentError"
               /\ last.rec = NoRecord
               /\ CalledCount = last.pre
        /\ ((last.req.inbound_dns = Null) # (last.req.path = Null) /\ Colliding = {}) =>
               /\ last.kind = "ok"
               /\ CalledCount = last.pre + 1

---------------------------------------------------------------------------
(* The admin of plugin configurations under both implementations           *)

\* the routes and the consumer the plugin configurations are made for
RouteRequests ==
    {[name |-> 11, inbound_dns |-> 21, path |-> Null, strip_path |-> FALSE,
      upstream_url |-> 41],
     [name |-> 12, inbound_dns |-> 22, path |-> Null, strip_path |-> FALSE,
      upstream_url |-> 41]}

ScopeConsumer == [username |-> 51, custom_id |-> Null]

ConsumerIds == {Null} \cup Ids(consumers)

\* a create is followed as long as it leaves at most MaxConfigs configurations and
\* uses no more ids than the routes, the consumer and the configurations need
Configured ==
    /\ Len(plugins') <= MaxConfigs
    /\ nextId' <= MaxRoutes + MaxConfigs + 2

NextPlugins ==
    \/ \E req \in RouteRequests :
           /\ Len(apis) < MaxRoutes /\ plugins = <<>> /\ consumers = <<>>
           /\ req.name \notin {apis[i].name : i \in 1..Len(apis)}
           /\ ApiAddCall(req)
    \/ /\ Len(apis) = MaxRoutes /\ consumers = <<>> /\ plugins = <<>>
       /\ ConsumerCreateCall(ScopeConsumer)
    \/ \E a \in Ids(apis), c \in ConsumerIds, req \in PluginRequests :
           PluginCreateCall(a, c, req) /\ Configured
    \/ \E a \in Ids(apis), k \in PluginKeys, c \in ConsumerIds, patch \in PluginPatches :
           PluginUpdateCall(a, k, c, patch)
    \/ \E a \in Ids(apis), k \in PluginKeys : PluginDeleteCall(a, k)
    \/ \E a \in Ids(apis), k \in {Null} \cup Ids(plugins), req \in PluginRequests :
           /\ req.plugin_name = "rate-limiting"
           /\ PluginCreateOrUpdateCall(a, k, Null, req)
           /\ Configured

SpecPlugins == Init /\ [][NextPlugins]_vars

---------------------------------------------------------------------------
(* Properties of the admin of plugin configurations                        *)

Triple(r) == <<r.api_id, r.name, r.consumer_id>>

\* the configuration an update, or a create_or_update with an id, addresses
Addressed(store, call) ==
    PluginResolve(store, call.api,
                  IF call.op = "plugins.update" THEN call.key ELSE ById(call.key))

\* C4, as claimed: create_or_update (add_or_update) without an identifier, given what
\* a create accepts, returns a record with a new id and count() grows by exactly one;
\* with the id X of a stored record, given what an update accepts, it returns the
\* record of id X and count() is unchanged: for APIs, Consumers and plugin
\* configurations.
C4_Step ==
    /\ last'.op = "apis.add_or_update" =>
           IF last'.key = Null
           THEN ApiAdd(apis, last'.req, nextId).kind = "ok" =>
                    /\ last'.kind = "ok"
                    /\ last'.rec.id # Null /\ last'.rec.id \notin Ids(apis)
                    /\ ApisCount(impl, apis') = ApisCount(impl, apis) + 1
           ELSE ApiUpdate(apis, last'.key, PatchOf(last'.req)).kind = "ok" =>
                    /\ last'.kind = "ok"
                    /\ last'.rec.id = last'.key
                    /\ ApisCount(impl, apis') = ApisCount(impl, apis)
    /\ last'.op = "consumers.create_or_update" =>
           IF last'.key = Null
           THEN ConsumerCreate(consumers, last'.req, nextId).kind = "ok" =>
                    /\ last'.kind = "ok"
                    /\ last'.rec.id # Null /\ last'.rec.id \notin Ids(consumers)
                    /\ ConsumersCount(impl, consumers')
                           = ConsumersCount(impl, consumers) + 1
           ELSE ConsumerUpdate(consumers, last'.key, PatchOf(last'.req)).kind = "ok" =>
                    /\ last'.kind = "ok"
                    /\ last'.rec.id = last'.key
                    /\ ConsumersCount(impl, consumers') = ConsumersCount(impl, consumers)
    /\ last'.op = "plugins.create_or_update" =>
           LET req == last'.req  a == last'.api IN
           IF last'.key = Null
           THEN PluginCreate(plugins, a, req.plugin_name, req.enabled, req.consumer_id,
                             req.fields, nextId).kind = "ok" =>
                    /\ last'.kind = "ok"
                    /\ last'.rec.id # Null /\ last'.rec.id \notin Ids(plugins)
                    /\ PluginsCount(impl, plugins', a) = PluginsCount(impl, plugins, a) + 1
           ELSE PluginUpdate(plugins, a, ById(last'.key), req.enabled, req.consumer_id,
                             req.fields).kind = "ok" =>
                    /\ last'.kind = "ok"
                    /\ last'.rec.id = last'.key
                    /\ PluginsCount(impl, plugins', a) = PluginsCount(impl, plugins, a)

C4_AsClaimed == [][C4_Step]_vars

\* C7, as claimed: an update of a stored plugin configuration, addressed by id or by
\* plugin name, with a config key its plugin's schema does not declare fails with
\* InvalidArgumentError, returns no record and leaves the stored configurations (so
\* what a retrieve returns, and count()) as they were.
C7_Step ==
    (/\ last'.op = "plugins.update"
     /\ Addressed(plugins, last') # 0
     /\ ~(DOMAIN last'.req.fields
              \subseteq PluginSchemaRegistry[plugins[Addressed(plugins, last')].name])) =>
        /\ last'.kind = "InvalidArgumentError"
        /\ last'.rec = NoRecord
        /\ plugins' = plugins

C7_AsClaimed == [][C7_Step]_vars

\* C9: no two stored plugin configurations have the same (route, plugin name,
\* consumer_id), a null consumer_id counting as a value; a create of a registered
\* plugin with declared config keys whose triple is that of a stored configuration
\* fails with ConflictError, returns no record and stores nothing.
C9_ScopedUniqueness ==
    /\ \A i, j \in 1..Len(plugins) : i # j => Triple(plugins[i]) # Triple(plugins[j])
    /\ (/\ last.op = "plugins.create"
        /\ last.req.plugin_name \in DOMAIN PluginSchemaRegistry
        /\ DOMAIN last.req.fields \subseteq PluginSchemaRegistry[last.req.plugin_name]
        /\ \E i \in 1..Len(plugins) :
               /\ plugins[i].id # last.rec.id
               /\ Triple(plugins[i])
                      = <<last.api, last.req.plugin_name, last.req.consumer_id>>) =>
           /\ last.kind = "ConflictError"
           /\ last.rec = NoRecord
           /\ PluginsCount(impl, plugins, last.api) = last.pre

\* the client refused a second configuration of a plugin for the same consumer on
\* the same route, next to the route's global configuration of that plugin
C9_Witness ==
    /\ impl = "client"
    /\ last.op = "plugins.create" /\ last.kind = "ConflictError"
    /\ last.req.consumer_id # Null
    /\ Len(plugins) = 2
    /\ plugins[1].api_id = plugins[2].api_id /\ plugins[1].name = plugins[2].name
    /\ {plugins[1].consumer_id, plugins[2].consumer_id} = {Null, last.req.consumer_id}

\* C10, as claimed: a create whose plugin_name is no key of the plugin schema registry
\* fails with InvalidArgumentError, returns no record and leaves the route's count of
\* plugin configurations unchanged.
C10_AsClaimed ==
    (last.op = "plugins.create"
         /\ last.req.plugin_name \notin DOMAIN PluginSchemaRegistry) =>
        /\ last.kind = "InvalidArgumentError"
        /\ last.rec = NoRecord
        /\ PluginsCount(impl, plugins, last.api) = last.pre

---------------------------------------------------------------------------
(* Listing and iterating over a changing collection of APIs, under both    *)
(* implementations                                                         *)

\* routes matched by path: any number of them can be stored
ListedRequests ==
    {[name |-> Null, inbound_dns |-> Null, path |-> 31, strip_path |-> FALSE,
      upstream_url |-> 41],
     [name |-> 11, inbound_dns |-> 21, path |-> Null, strip_path |-> FALSE,
      upstream_url |-> 42]}

ListFilters == {NoFilter, [upstream_url |-> 41], [inbound_dns |-> 21]}

NextList ==
    \/ \E req \in ListedRequests :
           Len(apis) < MaxListed /\ nextId <= MaxListed + 1 /\ ApiAddCall(req)
    \/ \E k \in Ids(apis) : ApiDeleteCall(k)
    \/ \E filter \in ListFilters, size \in 1..MaxSize :
           ApiListCall(filter, size, Null, <<>>, FALSE)
    \/ \E size \in 1..MaxSize :
           /\ last.op = "apis.list" /\ last.page.next # Null
           /\ ApiListCall(last.filter, size, last.page.next,
                          last.prev \o last.page.data, TRUE)
    \/ \E filter \in ListFilters, w \in 1..MaxSize : ApiIterateCall(filter, w)
    \/ Len(traversal.found) <= MaxListed /\ ApiIterateStep

SpecList == Init /\ [][NextList]_vars

\* pages and counts of a changing collection: list from the start and from the
\* next of the page before, with filter fields and with a field that is none, and
\* count with and without filter fields
NextPages ==
    \/ \E req \in ListedRequests :
           Len(apis) < MaxListed /\ nextId <= MaxListed + 1 /\ ApiAddCall(req)
    \/ \E k \in Ids(apis) : ApiDeleteCall(k)
    \/ \E filter \in ListFilters \cup {[path |-> 31]}, size \in 1..MaxSize :
           ApiListCall(filter, size, Null, <<>>, FALSE)
    \/ \E size \in 1..MaxSize :
           /\ last.op = "apis.list" /\ last.page.next # Null
           /\ ApiListCall(last.filter, size, last.page.next,
                          last.prev \o last.page.data, TRUE)
    \/ \E filter \in ListFilters \cup {[path |-> 31]} : ApiCountCall(filter)

SpecPages == Init /\ [][NextPages]_vars

\* traversals of a store that does not change under them: the store is changed
\* between traversals only, and the caller's loop takes every window of the
\* traversal it started; an iterate called while another traversal is under way
\* asks for a larger window
NextTraverse ==
    \/ \E req \in ListedRequests :
           /\ traversal.state # "running"
           /\ Len(apis) < MaxListed /\ nextId <= MaxListed + 1 /\ ApiAddCall(req)
    \/ \E k \in Ids(apis) : traversal.state # "running" /\ ApiDeleteCall(k)
    \/ \E filter \in ListFilters, w \in 1..MaxSize :
           /\ traversal.state = "running" => w > traversal.window_size
           /\ ApiIterateCall(filter, w)
    \/ Len(traversal.found) <= MaxListed /\ ApiIterateStep

\* a store that takes no lock
NeverLocked(l) == TRUE

\* the store's mutual-exclusion lock is held by nobody
Unlocked(l) == l = Null

\* a caller calls add: the request is on its way
CreateSend(c, req) ==
    /\ pending[c].pc = "idle"
    /\ pending' = [pending EXCEPT ![c] =
                       [pc |-> "sent", req |-> req, seen |-> <<>>, kind |-> "none",
                        free |-> ConflictingFields(apis, req, ApiUnique, Null) = {}]]
    /\ UNCHANGED <<impl, apis, consumers, plugins, credentials, nextId, last,
                   traversal, lock>>

\* the store takes the lock for the caller's insert and reads its indices
CreateCheck(c) ==
    /\ pending[c].pc = "sent"
    /\ Unlocked(lock)
    /\ lock' = c
    /\ pending' = [pending EXCEPT ![c].pc = "checked", ![c].seen = apis]
    /\ UNCHANGED <<impl, apis, consumers, plugins, credentials, nextId, last, traversal>>

\* the insert, decided on what the check read, is written and answered, and the
\* lock is given back; the client turns the answer into a record or an error
CreateWrite(c) ==
    /\ pending[c].pc = "checked"
    /\ LET o == ApisAdd(impl, pending[c].seen, pending[c].req, nextId) IN
       /\ apis' = IF o.kind = "ok" THEN Append(apis, o.rec) ELSE apis
       /\ nextId' = IF o.kind = "ok" THEN nextId + 1 ELSE nextId
       /\ last' = Call("apis.add", o, Null, pending[c].req, ApisCount(impl, apis))
       /\ pending' = [pending EXCEPT ![c].pc = "idle", ![c].kind = o.kind]
    /\ lock' = Null
    /\ traversal' = Touch(traversal)
    /\ UNCHANGED <<impl, consumers, plugins, credentials>>

\* two callers add routes to one store, their calls overlapping in every way; a
\* route's name is any text the caller gives, the id of another route included
NextShared ==
    \/ \E c \in Callers, req \in RouteRequests \cup
               {[name |-> n, inbound_dns |-> 21, path |-> Null, strip_path |-> FALSE,
                 upstream_url |-> 41] : n \in {12, 1}} :
           /\ Len(apis) + Cardinality({d \in Callers : pending[d].pc # "idle"}) < MaxStore
           /\ CreateSend(c, req)
    \/ \E c \in Callers : CreateCheck(c)
    \/ \E c \in Callers : CreateWrite(c)

SpecShared == Init /\ [][NextShared]_vars

\* a traversal over a store that changes between its list calls
NextLive ==
    \/ \E req \in ListedRequests :
           Len(apis) < MaxListed /\ nextId <= MaxListed + 1 /\ ApiAddCall(req)
    \/ \E k \in Ids(apis) : ApiDeleteCall(k)
    \/ \E filter \in {NoFilter, [upstream_url |-> 41]}, w \in 1..(MaxSize - 1) :
           traversal.state # "running" /\ ApiIterateNoted(filter, w)
    \/ Len(traversal.found) <= MaxListed /\ ApiIterateStep

SpecLive == Init /\ [][NextLive]_vars

SpecTraverse ==
    /\ Init /\ [][NextTraverse]_vars
    /\ WF_vars(Len(traversal.found) <= MaxListed /\ ApiIterateStep)

---------------------------------------------------------------------------
(* Properties of list and iterate                                          *)

IdsOf(s) == {s[i].id : i \in 1..Len(s)}

\* C5: with n matching records and 0 < k < n, list(size=k) returns exactly k records
\* and a non-null next token; list called again with that token as offset, and a size
\* of at least the n-k records left, returns exactly those n-k records, none of which
\* was in a page before (the same when the pages before were several).
C5_Paging ==
    (last.op = "apis.list" /\ last.kind = "ok") =>
        LET n == StoreCount(apis, last.filter)
            k == Len(last.prev)
        IN  /\ (~last.cont /\ 0 < last.size /\ last.size < n) =>
                   /\ Len(last.page.data) = last.size
                   /\ last.page.next # Null
            /\ (last.cont /\ last.size >= n - k) =>
                   /\ 0 < k /\ k < n
                   /\ Len(last.page.data) = n - k
                   /\ IdsOf(last.page.data) \cap IdsOf(last.prev) = {}
                   /\ IdsOf(last.page.data) \cup IdsOf(last.prev)
                          = IdsOf(Matching(apis, last.filter))
                   /\ Cardinality(IdsOf(last.page.data)) = n - k

\* the client got the two records left of three after a first page of one
C5_Witness ==
    /\ impl = "client"
    /\ last.op = "apis.list" /\ last.cont /\ last.kind = "ok"
    /\ Len(apis) = 3
    /\ Len(last.prev) = 1 /\ Len(last.page.data) = 2
    /\ last.page.next = Null

\* C6: as long as the store is not changed during the traversal,
\* iterate(window_size=w) yields records of pairwise distinct ids for every w >= 1,
\* and once it is done it has yielded exactly the n matching records: the ids are
\* those of list().data (with the same filter).
C6_IterateAll ==
    (traversal.state # "idle" /\ traversal.clean) =>
        LET found == traversal.found
            listed == ApisList(impl, apis, traversal.filter, DefaultSize, Null)
        IN  /\ traversal.state # "failed"
            /\ \A i, j \in 1..Len(found) : i # j => found[i].id # found[j].id
            /\ Len(found) <= StoreCount(apis, traversal.filter)
            /\ traversal.state = "done" =>
                   /\ Len(found) = StoreCount(apis, traversal.filter)
                   /\ listed.kind = "ok"
                   /\ IdsOf(found) = IdsOf(listed.page.data)

\* a traversal of three records through the client in windows of two came to its end
C6_Witness ==
    /\ impl = "client"
    /\ traversal.state = "done" /\ traversal.clean
    /\ traversal.window_size = 2
    /\ Len(traversal.found) = 3

\* C11, as claimed: a create for a registered plugin with a config key the plugin's
\* schema does not declare fails with InvalidArgumentError, returns no record and
\* stores nothing; and every stored plugin configuration has a registered plugin
\* name and only config keys its plugin's schema declares.
C11_AsClaimed ==
    /\ (/\ last.op = "plugins.create"
        /\ last.req.plugin_name \in DOMAIN PluginSchemaRegistry
        /\ ~(DOMAIN last.req.fields
                 \subseteq PluginSchemaRegistry[last.req.plugin_name])) =>
           /\ last.kind = "InvalidArgumentError"
           /\ last.rec = NoRecord
           /\ PluginsCount(impl, plugins, last.api) = last.pre
    /\ \A i \in 1..Len(plugins) :
           /\ plugins[i].name \in DOMAIN PluginSchemaRegistry
           /\ DOMAIN plugins[i].config \subseteq PluginSchemaRegistry[plugins[i].name]

\* C13, as claimed: an update of a stored plugin configuration by its id, with
\* enabled = e and config fields its schema declares, and no consumer_id, returns a
\* record whose enabled is e and whose config holds the given values, with the
\* consumer_id it had, and leaves the route's count of configurations unchanged.
C13_Step ==
    (/\ last'.op = "plugins.update"
     /\ "id" \in DOMAIN last'.key
     /\ last'.req.consumer_id = Null
     /\ Addressed(plugins, last') # 0
     /\ DOMAIN last'.req.fields
            \subseteq PluginSchemaRegistry[plugins[Addressed(plugins, last')].name]) =>
        LET old == plugins[Addressed(plugins, last')] IN
        /\ last'.kind = "ok"
        /\ last'.rec.id = old.id
        /\ last'.rec.enabled = last'.req.enabled
        /\ \A k \in DOMAIN last'.req.fields : last'.rec.config[k] = last'.req.fields[k]
        /\ last'.rec.consumer_id = old.consumer_id
        /\ PluginsCount(impl, plugins', last'.api) = PluginsCount(impl, plugins, last'.api)

C13_AsClaimed == [][C13_Step]_vars

---------------------------------------------------------------------------
(* The creation of plugin configurations with and without the enabled      *)
(* flag, under both implementations                                        *)

\* create called without enabled, with enabled=False, and with several config fields
PluginCreateArgs ==
    {[plugin_name |-> "rate-limiting", fields |-> [second |-> 20]],
     [plugin_name |-> "rate-limiting", enabled |-> FALSE, fields |-> [second |-> 20]],
     [plugin_name |-> "rate-limiting", enabled |-> TRUE,
      fields |-> [second |-> 20, minute |-> 5]],
     [plugin_name |-> "request-size-limiting",
      fields |-> [allowed_payload_size |-> 512]]}

NextPluginCreate ==
    \/ \E req \in RouteRequests : apis = <<>> /\ ApiAddCall(req)
    \/ apis # <<>> /\ consumers = <<>> /\ ConsumerCreateCall(ScopeConsumer)
    \/ \E a \in Ids(apis), c \in ConsumerIds, args \in PluginCreateArgs :
           PluginCreateCall(a, c, args) /\ Configured
    \/ \E a \in Ids(apis), k \in Ids(plugins) : PluginDeleteCall(a, ById(k))
    \/ \E a \in Ids(apis), k \in Ids(plugins), patch \in PluginPatches :
           PluginUpdateCall(a, ById(k), Null, patch)

SpecPluginCreate == Init /\ [][NextPluginCreate]_vars

\* owners and what depends on them: a route and a Consumer are created, given
\* plugin configurations (for every Consumer and for the one Consumer) and a
\* credential, and deleted while those are stored
NextOwners ==
    \/ \E req \in RouteRequests :
           apis = <<>> /\ nextId <= MaxRoutes + MaxConfigs /\ ApiAddCall(req)
    \/ consumers = <<>> /\ nextId <= MaxRoutes + MaxConfigs
           /\ ConsumerCreateCall(ScopeConsumer)
    \/ \E a \in Ids(apis), c \in ConsumerIds :
           /\ Len(plugins) < MaxConfigs /\ nextId <= MaxRoutes + MaxConfigs + 1
           /\ PluginCreateCall(a, c, [plugin_name |-> "request-size-limiting",
                                      fields |-> [allowed_payload_size |-> 512]])
    \/ \E c \in Ids(consumers) \cup {51} :
           /\ Len(credentials) < MaxRoutes /\ nextId <= MaxRoutes + MaxConfigs + 1
           /\ BasicAuthCreateCall(c, [username |-> 51])
    \/ \E c \in Ids(consumers) \cup {51} : ConsumerDeleteCall(c)
    \/ \E a \in Ids(apis) \cup {11} : ApiDeleteCall(a)

SpecOwners == Init /\ [][NextOwners]_vars

\* C12: a plugin configuration created without an enabled argument is stored with
\* enabled = true, one created with enabled = false with enabled = false (the flag
\* given, in general); the config fields given are the record's config map, with the
\* values given; the record returned is the one stored.
C12_CreatedAsGiven ==
    (last.op = "plugins.create" /\ last.kind = "ok") =>
        /\ "enabled" \notin DOMAIN last.req => last.rec.enabled = TRUE
        /\ "enabled" \in DOMAIN last.req => last.rec.enabled = last.req.enabled
        /\ DOMAIN last.rec.config = DOMAIN last.req.fields
        /\ \A k \in DOMAIN last.req.fields : last.rec.config[k] = last.req.fields[k]
        /\ last.rec.name = last.req.plugin_name
        /\ last.rec \in Range(plugins)

\* through the client: a configuration created with enabled=False and second=20 is
\* stored so, next to one just created without the enabled argument
C12_Witness ==
    /\ impl = "client"
    /\ last.op = "plugins.create" /\ last.kind = "ok"
    /\ "enabled" \notin DOMAIN last.req /\ last.rec.enabled = TRUE
    /\ Len(plugins) = 2
    /\ plugins[1].enabled = FALSE /\ plugins[1].config.second = 20
    /\ plugins[2] = last.rec

---------------------------------------------------------------------------
(* Updates, failed calls and deletes on APIs and Consumers, under both     *)
(* implementations                                                         *)

\* two routes matched by host, one matched by path with strip_path=True, and a
\* call that gives neither host nor path
UpdatedRequests ==
    {[name |-> 11, inbound_dns |-> 21, path |-> Null, strip_path |-> FALSE,
      upstream_url |-> 41],
     [name |-> Null, inbound_dns |-> Null, path |-> 31, strip_path |-> TRUE,
      upstream_url |-> 41],
     [name |-> 12, inbound_dns |-> 22, path |-> Null, strip_path |-> FALSE,
      upstream_url |-> 41],
     [name |-> Null, inbound_dns |-> Null, path |-> Null, strip_path |-> FALSE,
      upstream_url |-> 41]}

\* update(name_or_id, url, path=.., strip_path=True), update(name_or_id, url,
\* path=.., inbound_dns=..), and an update with a field an API does not have
UpdatedPatches ==
    {[upstream_url |-> 41, path |-> 31, strip_path |-> TRUE],
     [upstream_url |-> 42, path |-> 32, inbound_dns |-> 22],
     [upstream_url |-> 41, created_at |-> 9]}

UpdatedConsumers ==
    {[username |-> 51, custom_id |-> 61], [username |-> 52, custom_id |-> Null],
     [username |-> Null, custom_id |-> 61]}

NextUpdate ==
    \/ \E req \in UpdatedRequests :
           consumers = <<>> /\ CanCreate /\ ApiAddCall(req)
    \/ \E k \in ApiKeys, patch \in UpdatedPatches :
           consumers = <<>> /\ ApiUpdateCall(k, patch)
    \/ \E k \in ApiKeys : consumers = <<>> /\ ApiDeleteCall(k)
    \/ \E k \in ApiKeys : consumers = <<>> /\ ApiRetrieveCall(k)
    \/ \E req \in UpdatedConsumers :
           apis = <<>> /\ CanCreate /\ ConsumerCreateCall(req)
    \/ \E k \in ConsumerKeys, patch \in {[custom_id |-> 62], [username |-> 52], [created_at |-> 9],
                                          [username |-> 51, custom_id |-> 61]} :
           apis = <<>> /\ ConsumerUpdateCall(k, patch)
    \/ \E k \in ConsumerKeys : apis = <<>> /\ ConsumerDeleteCall(k)
    \/ \E k \in ConsumerKeys : apis = <<>> /\ ConsumerRetrieveCall(k)
    \/ \E k \in 1..MaxId, req \in UpdatedRequests :
           /\ consumers = <<>> /\ req.name # Null
           /\ ApiAddOrUpdateCall(k, req)
    \/ \E k \in 1..MaxId, req \in UpdatedConsumers :
           /\ apis = <<>> /\ req.username # Null /\ req.custom_id # Null
           /\ ConsumerCreateOrUpdateCall(k, req)

SpecUpdate == Init /\ [][NextUpdate]_vars

\* the unique-key index of a store, read off the store: every record is found
\* under its id and under its key, a key finds only a record that holds it, and
\* no id and no non-null unique value is held by two records
Indexed(store, unique, alt, keys) ==
    /\ \A i, j \in 1..Len(store) :
           i # j => /\ store[i].id # store[j].id
                    /\ \A f \in unique :
                           store[i][f] # Null => store[i][f] # store[j][f]
    /\ \A i \in 1..Len(store) :
           /\ Resolve(store, store[i].id, alt) = i
           /\ store[i][alt] # Null => Resolve(store, store[i][alt], alt) = i
    /\ \A k \in keys :
           LET i == Resolve(store, k, alt) IN
           i # 0 => (store[i].id = k \/ store[i][alt] = k)

C14_Indexed ==
    /\ Indexed(apis, ApiUnique, "name", ApiKeys)
    /\ Indexed(consumers, ConsumerUnique, "username", ConsumerKeys)

C14_Step ==
    last'.kind # "ok" =>
        /\ apis' = apis
        /\ consumers' = consumers
        /\ plugins' = plugins
        /\ nextId' = nextId

\* C14: a call that ends in an error leaves every store as it was (the records,
\* their fields, the next id), and in every state each stored record is found
\* under its id and its unique key while a key finds nothing but a stored record
\* that holds it.
C14_ErrorsChangeNothing == [](C14_Indexed) /\ [][C14_Step]_vars

\* an update of one of two stored APIs was refused for a value the other holds
C14_Witness ==
    /\ last.op = "apis.update"
    /\ last.kind # "ok"
    /\ last.fields # {}
    /\ Len(apis) = 2
    /\ apis[1].inbound_dns # apis[2].inbound_dns

\* what the simulator answers to the call just made, on the store it was made on
SimulatorKind ==
    LET c == last' IN
    CASE c.op = "apis.add" -> ApisAdd("simulator", apis, c.req, nextId).kind
      [] c.op = "apis.update" -> ApisUpdate("simulator", apis, c.key, c.req).kind
      [] c.op = "apis.delete" -> ApisDelete("simulator", apis, c.key).kind
      [] c.op = "apis.retrieve" -> ApisRetrieve("simulator", apis, c.key).kind
      [] c.op = "consumers.create" ->
             ConsumersCreate("simulator", consumers, c.req, nextId).kind
      [] c.op = "consumers.update" ->
             ConsumersUpdate("simulator", consumers, c.key, c.req).kind
      [] c.op = "consumers.delete" ->
             ConsumersDelete("simulator", consumers, c.key).kind
      [] c.op = "consumers.retrieve" ->
             ConsumersRetrieve("simulator", consumers, c.key).kind
      [] OTHER -> "ok"

C15_Step ==
    /\ (/\ last'.op \in {"apis.add", "apis.update", "consumers.create",
                         "consumers.update"}
        /\ SimulatorKind = "ConflictError") => last'.kind = "ConflictError"
    /\ (/\ last'.op \in {"apis.update", "apis.delete", "apis.retrieve",
                         "consumers.update", "consumers.delete",
                         "consumers.retrieve"}
        /\ SimulatorKind = "NotFoundError") => last'.kind = "NotFoundError"

\* C15, as claimed: where the simulator raises ConflictError on a create or an
\* update (the server answers 409), or NotFoundError on an update, a delete or a
\* retrieve (the server answers 404), the call made through the transport client
\* raises the same error kind.
C15_AsClaimed == [][C15_Step]_vars

---------------------------------------------------------------------------
(* The call surface: the argument names each implementation accepts        *)

\* APIAdminClient.add(self, target_url, name, public_dns, path, strip_path)
ClientApiAddParams == {"target_url", "name", "public_dns", "path", "strip_path"}

\* APIAdminClient.update: the fields it lets through besides target_url
ClientApiUpdateFields == {"name", "public_dns", "path", "strip_path"}

\* APIAdminClient.list: the filter fields it lets through
ClientApiFilterNames == {"id", "name", "public_dns", "target_url"}

\* the names of the contract: add(upstream_url, name, inbound_dns, path, strip_path)
ContractApiAddParams == {"upstream_url", "name", "inbound_dns", "path", "strip_path"}

\* the contract's name of a field the client names otherwise
ContractName(f) ==
    CASE f = "target_url" -> "upstream_url"
      [] f = "public_dns" -> "inbound_dns"
      [] OTHER -> f

\* keyword arguments given under the client's names, under the contract's
Renamed(kwargs) ==
    IF DOMAIN kwargs = {} THEN kwargs
    ELSE [f \in {ContractName(k) : k \in DOMAIN kwargs} |->
             kwargs[CHOOSE k \in DOMAIN kwargs : ContractName(k) = f]]

\* the parameters of add bound to the keyword arguments, the rest at its default
ApiArgs(kwargs) ==
    [f \in ContractApiAddParams |->
        IF f \in DOMAIN kwargs THEN kwargs[f]
        ELSE IF f = "strip_path" THEN FALSE ELSE Null]

\* apis.add(**kwargs): a keyword that is no parameter, or a missing url, is a
\* TypeError of the call itself
SurfaceApisAdd(via, store, kwargs, id) ==
    IF via = "client"
    THEN IF ~(DOMAIN kwargs \subseteq ClientApiAddParams /\ "target_url" \in DOMAIN kwargs)
         THEN Outcome("TypeError", NoRecord, store, {})
         ELSE ClientApiAdd(store, ApiArgs(Renamed(kwargs)), id)
    ELSE IF ~(DOMAIN kwargs \subseteq ContractApiAddParams /\ "upstream_url" \in DOMAIN kwargs)
         THEN Outcome("TypeError", NoRecord, store, {})
         ELSE ApiAdd(store, ApiArgs(kwargs), id)

\* apis.update(name_or_id, url, **fields): the url is positional
SurfaceApisUpdate(via, store, name_or_id, url, fields) ==
    IF via = "client"
    THEN IF ~AssertDictKeysIn(DOMAIN fields, ClientApiUpdateFields)
         THEN Outcome("InvalidArgumentError", NoRecord, store, {})
         ELSE ClientApiUpdate(store, name_or_id,
                              [upstream_url |-> url] @@ Renamed(fields))
    ELSE ApiUpdate(store, name_or_id, [upstream_url |-> url] @@ fields)

\* apis.list(**filter_fields)
SurfaceApisList(via, store, filter, size, offset) ==
    IF via = "client"
    THEN IF ~AssertDictKeysIn(DOMAIN filter, ClientApiFilterNames)
         THEN ListOutcome("InvalidArgumentError", NoPage)
         ELSE ClientApiList(store, Renamed(filter), size, offset)
    ELSE AdminList(store, ApiFilterFields, filter, size, offset)

SurfaceAddCall(kwargs) ==
    /\ LET o == SurfaceApisAdd(impl, apis, kwargs, nextId) IN
       /\ apis' = o.store
       /\ nextId' = IF o.kind = "ok" THEN nextId + 1 ELSE nextId
       /\ last' = Call("apis.add", o, Null, kwargs, ApisCount(impl, apis))
    /\ UNCHANGED <<impl, lock, pending, credentials, consumers, plugins, traversal>>

SurfaceUpdateCall(name_or_id, url, fields) ==
    /\ LET o == SurfaceApisUpdate(impl, apis, name_or_id, url, fields) IN
       /\ apis' = o.store
       /\ last' = [Call("apis.update", o, name_or_id, fields, ApisCount(impl, apis))
                       EXCEPT !.size = url]
    /\ UNCHANGED <<impl, lock, pending, credentials, consumers, plugins, nextId, traversal>>

SurfaceListCall(filter) ==
    /\ LET o == SurfaceApisList(impl, apis, filter, DefaultSize, Null) IN
       last' = [NoCall EXCEPT !.op = "apis.list", !.kind = o.kind, !.page = o.page,
                              !.filter = filter, !.size = DefaultSize,
                              !.pre = ApisCount(impl, apis)]
    /\ UNCHANGED <<impl, lock, pending, credentials, apis, consumers, plugins, nextId, traversal>>

\* the calls of the tests, and the same calls under the client's names
NextSurface ==
    \/ \E kwargs \in {[upstream_url |-> 41, name |-> 11, inbound_dns |-> 21],
                      [upstream_url |-> 41, name |-> 12, inbound_dns |-> 22],
                      [target_url |-> 41, name |-> 11, public_dns |-> 21],
                      [target_url |-> 41, name |-> 12, public_dns |-> 22]} :
           CanCreate /\ SurfaceAddCall(kwargs)
    \/ \E k \in ApiKeys, fields \in {[path |-> 31, strip_path |-> TRUE],
                                     [path |-> 32, inbound_dns |-> 22],
                                     [path |-> 32, public_dns |-> 22]} :
           SurfaceUpdateCall(k, 41, fields)
    \/ \E filter \in {NoFilter, [name |-> 11], [inbound_dns |-> 21],
                      [public_dns |-> 21]} :
           SurfaceListCall(filter)
    \/ \E size \in 1..MaxSize, token \in {7, EncodeOffset(1), EncodeOffset(2)} :
           ApiListCall(NoFilter, size, token, <<>>, FALSE)
    \/ \E k \in ApiKeys : ApiRetrieveCall(k)
    \/ \E k \in ApiKeys : ApiDeleteCall(k)

SpecSurface == Init /\ [][NextSurface]_vars

C16_Step ==
    LET c == last' IN
    /\ (c.op = "apis.add" /\ DOMAIN c.req \subseteq ContractApiAddParams) =>
           c.kind = SurfaceApisAdd("simulator", apis, c.req, nextId).kind
    /\ (c.op = "apis.update" /\ DOMAIN c.req \subseteq ContractApiAddParams) =>
           c.kind = SurfaceApisUpdate("simulator", apis, c.key, c.size, c.req).kind
    /\ (c.op = "apis.list" /\ DOMAIN c.filter \subseteq ApiFilterFields) =>
           c.kind = SurfaceApisList("simulator", apis, c.filter, c.size, c.offset).kind

\* C16, as claimed: a call made with the argument names of the contract tests
\* (apis.add with upstream_url / inbound_dns, apis.update with inbound_dns,
\* apis.list filtered by inbound_dns) has the same outcome kind on the transport
\* client as on the simulator.
C16_AsClaimed == [][C16_Step]_vars

C17_Step ==
    LET c == last'
        onApis == c.op = "apis.update"
        before == IF onApis THEN apis ELSE consumers
        after == IF onApis THEN apis' ELSE consumers'
        alt == IF onApis THEN "name" ELSE "username"
        i == Resolve(before, c.key, alt) IN
    (c.op \in {"apis.update", "consumers.update"} /\ c.kind = "ok") =>
        /\ i # 0
        /\ DOMAIN c.rec = DOMAIN before[i]
        /\ \A f \in DOMAIN c.req : c.rec[f] = c.req[f]
        /\ \A f \in DOMAIN before[i] \ DOMAIN c.req : c.rec[f] = before[i][f]
        /\ Len(after) = Len(before)
        /\ \A j \in 1..Len(before) : after[j] = IF j = i THEN c.rec ELSE before[j]
        /\ IF onApis
           THEN /\ ApisRetrieve(impl, after, c.rec.id).rec = c.rec
                /\ c.rec.name # Null => ApisRetrieve(impl, after, c.rec.name).rec = c.rec
           ELSE /\ ConsumersRetrieve(impl, after, c.rec.id).rec = c.rec
                /\ c.rec.username # Null =>
                       ConsumersRetrieve(impl, after, c.rec.username).rec = c.rec

\* C17: after a successful update every field named in the patch has the patched
\* value and every other field of the record keeps the value it had, no other
\* record changes, and a retrieve by id or key returns exactly the merged record.
C17_PartialMerge == [][C17_Step]_vars

\* the client updated path and inbound_dns of an API whose strip_path an earlier
\* update had set: strip_path is still true
C17_Witness ==
    /\ impl = "client"
    /\ last.op = "apis.update"
    /\ last.kind = "ok"
    /\ ~("strip_path" \in DOMAIN last.req)
    /\ last.rec.strip_path = TRUE
    /\ last.rec.path = 32
    /\ last.rec.inbound_dns = 22
    /\ last.rec.name = 11

\* C18: a successful create returns the stored record; as returned it has a
\* non-null id and created_at, every supplied field with the supplied value, and
\* no key for an optional field that was not supplied.
C18_CreatedRecord ==
    (IsCreate /\ last.kind = "ok") =>
        LET r == Json(last.rec) IN
        /\ \E i \in 1..Len(CalledStore) : CalledStore[i] = last.rec
        /\ {"id", "created_at"} \subseteq DOMAIN r
        /\ r.id # Null
        /\ r.created_at # Null
        /\ \A f \in DOMAIN last.req :
               IF f = "strip_path" \/ last.req[f] # Null
               THEN f \in DOMAIN r /\ r[f] = last.req[f]
               ELSE ~(f \in DOMAIN r)

\* the client created a Consumer with only custom_id: no username key
C18_Witness ==
    /\ impl = "client"
    /\ last.op = "consumers.create"
    /\ last.kind = "ok"
    /\ last.req.username = Null
    /\ last.req.custom_id = 61
    /\ DOMAIN Json(last.rec) = {"id", "created_at", "custom_id"}

\* the stored APIs whose fields equal the filter's values
Filtered(filter) ==
    {r \in Range(apis) : \A f \in DOMAIN filter : r[f] = filter[f]}

C20_Step ==
    LET c == last'
        onApis == c.op = "apis.delete"
        before == IF onApis THEN apis ELSE consumers
        after == IF onApis THEN apis' ELSE consumers'
        alt == IF onApis THEN "name" ELSE "username"
        i == Resolve(before, c.key, alt)
        old == before[i]
        again == [f \in DOMAIN old \ {"id", "created_at"} |-> old[f]] IN
    (c.op \in {"apis.delete", "consumers.delete"} /\ i # 0) =>
        /\ c.kind = "ok"
        /\ after = [j \in 1..(Len(before) - 1) |->
                        IF j < i THEN before[j] ELSE before[j + 1]]
        /\ IF onApis
           THEN /\ ApisCount(impl, after) = ApisCount(impl, before) - 1
                /\ ApisRetrieve(impl, after, old.id).kind = "NotFoundError"
                /\ old.name # Null =>
                       ApisRetrieve(impl, after, old.name).kind = "NotFoundError"
                /\ ApisAdd(impl, after, again, nextId).kind = "ok"
           ELSE /\ ConsumersCount(impl, after) = ConsumersCount(impl, before) - 1
                /\ ConsumersRetrieve(impl, after, old.id).kind = "NotFoundError"
                /\ old.username # Null =>
                       ConsumersRetrieve(impl, after, old.username).kind
                           = "NotFoundError"
                /\ ConsumersCreate(impl, after, again, nextId).kind = "ok"

\* C20, as claimed: a delete by id or by name / username of a stored record
\* removes exactly that record, count() is one less, a retrieve of it by id or
\* by key then fails with NotFoundError, and a create with its values succeeds.
C20_AsClaimed == [][C20_Step]_vars

\* the ids of a store are pairwise distinct
DistinctIds(store) ==
    \A i, j \in 1..Len(store) : i # j => store[i].id # store[j].id

\* a record present before and after a step has the created_at it had
SameCreatedAt(before, after) ==
    \A i \in 1..Len(before), j \in 1..Len(after) :
        before[i].id = after[j].id => before[i].created_at = after[j].created_at

C21_Step ==
    LET c == last'
        onApis == c.op \in ApiOps
        before == IF onApis THEN apis ELSE consumers
        alt == IF onApis THEN "name" ELSE "username"
        i == Resolve(before, c.key, alt) IN
    /\ SameCreatedAt(apis, apis')
    /\ SameCreatedAt(consumers, consumers')
    /\ SameCreatedAt(plugins, plugins')
    /\ (/\ c.op \in {"apis.update", "consumers.update", "apis.add_or_update",
                     "consumers.create_or_update"}
        /\ c.key # Null /\ c.kind = "ok") =>
           /\ i # 0
           /\ c.rec.id = before[i].id
           /\ c.rec.created_at = before[i].created_at

\* C21: the ids of the records of one store are pairwise distinct in every
\* state, no step changes the created_at of a stored record, and a successful
\* update or create_or_update addressed by id or by key returns a record with the
\* id and created_at of the record it addressed.
C21_IdsFixed ==
    /\ [](DistinctIds(apis) /\ DistinctIds(consumers) /\ DistinctIds(plugins))
    /\ [][C21_Step]_vars

\* a Consumer of two was addressed by its username and given another username
C21_Witness ==
    /\ last.op = "consumers.update"
    /\ last.kind = "ok"
    /\ last.key = 51
    /\ last.rec.username = 52
    /\ Len(consumers) = 2
    /\ \E i \in 1..Len(consumers) : consumers[i] = last.rec

C22_Step ==
    LET c == last'
        onApis == c.op = "apis.update"
        before == IF onApis THEN apis ELSE consumers
        after == IF onApis THEN apis' ELSE consumers'
        alt == IF onApis THEN "name" ELSE "username"
        unique == IF onApis THEN ApiUnique ELSE ConsumerUnique
        fields == IF onApis THEN ContractApiAddParams ELSE ConsumerUnique
        i == Resolve(before, c.key, alt)
        taken == {f \in unique \cap DOMAIN c.req :
                     /\ c.req[f] # Null
                     /\ \E j \in 1..Len(before) : j # i /\ before[j][f] = c.req[f]} IN
    (/\ c.op \in {"apis.update", "consumers.update"}
     /\ i # 0 /\ DOMAIN c.req \subseteq fields) =>
        IF taken # {}
        THEN c.kind = "ConflictError" /\ after = before
        ELSE c.kind = "ok"

\* C22, as claimed: an update that sets a unique field of a record to a non-null
\* value another record holds fails with ConflictError and changes nothing; an
\* update whose unique values are free or the record's own succeeds.
C22_AsClaimed == [][C22_Step]_vars

C23_Step ==
    LET c == last'
        onApis == c.op \in ApiOps
        before == IF onApis THEN apis ELSE consumers
        after == IF onApis THEN apis' ELSE consumers'
        alt == IF onApis THEN "name" ELSE "username"
        fields == IF onApis THEN ContractApiAddParams ELSE ConsumerUnique IN
    (/\ c.op \in {"apis.update", "apis.delete", "apis.retrieve",
                  "consumers.update", "consumers.delete", "consumers.retrieve"}
     /\ Resolve(before, c.key, alt) = 0
     /\ c.op \in {"apis.update", "consumers.update"} =>
            DOMAIN c.req \subseteq fields) =>
        /\ c.kind = "NotFoundError"
        /\ after = before
        /\ nextId' = nextId

\* C23, as claimed: an update, a delete or a retrieve addressed by a value that is
\* neither the id nor the name / username of a stored record fails with
\* NotFoundError and leaves the store as it was.
C23_AsClaimed == [][C23_Step]_vars

\* the offset tokens a caller can hold: none, and one per position
OffsetTokens == {Null} \cup {EncodeOffset(p) : p \in 1..MaxListed}

\* C24: for every filter, size and offset the total of list is the number of
\* stored records matching the filter, and count() is the number of stored
\* records, also when the store holds more than one default page.
C24_TotalIsAll ==
    /\ \A filter \in ListFilters, size \in 1..MaxSize, offset \in OffsetTokens :
           LET o == ApisList(impl, apis, filter, size, offset) IN
           /\ o.kind = "ok"
           /\ o.page.total = Cardinality(Filtered(filter))
    /\ ApisCount(impl, apis) = Len(apis)
    /\ ApisCount(impl, apis) = ApisList(impl, apis, NoFilter, 1, Null).page.total
    /\ (last.op = "apis.list" /\ last.kind = "ok") =>
           last.page.total = Cardinality(Filtered(last.filter))

\* the client listed one of three stored records, more than a default page:
\* the total and count() are 3
C24_Witness ==
    /\ impl = "client"
    /\ Len(apis) > CountPage
    /\ last.op = "apis.list" /\ last.kind = "ok"
    /\ last.size = 1 /\ last.filter = NoFilter
    /\ Len(last.page.data) = 1
    /\ last.page.total = 3
    /\ ApisCount(impl, apis) = 3

\* the token the server hands out for a position, none for the start
TokenAt(p) == IF p = 0 THEN Null ELSE EncodeOffset(p)

\* C25: for every filter, size and start position, next is null exactly when the
\* matching records from that position on are at most size (the empty store and
\* exactly size records included), and a list that follows a non-null next on an
\* unchanged store returns at least one record.
C25_NextIffMore ==
    /\ \A filter \in ListFilters, size \in 1..MaxSize, p \in 0..MaxListed :
           LET n == Cardinality(Filtered(filter))
               o == ApisList(impl, apis, filter, size, TokenAt(p)) IN
           /\ o.kind = "ok"
           /\ (o.page.next = Null) <=> (n - p <= size)
           /\ o.page.next # Null =>
                  \A again \in 1..MaxSize :
                      Len(ApisList(impl, apis, filter, again, o.page.next).page.data) > 0
    /\ (last.op = "apis.list" /\ last.kind = "ok" /\ last.cont) =>
           Len(last.page.data) > 0

\* the client listed two stored records with size 2: both returned, no next
C25_Witness ==
    /\ impl = "client"
    /\ last.op = "apis.list" /\ last.kind = "ok"
    /\ last.filter = NoFilter /\ last.offset = Null
    /\ Len(apis) = 2 /\ last.size = 2
    /\ Len(last.page.data) = 2
    /\ last.page.next = Null

RECURSIVE FollowNext(_, _, _, _)
\* the pages of list from an offset on, each asked for with the next of the one
\* before, put together
FollowNext(filter, size, offset, left) ==
    LET o == ApisList(impl, apis, filter, size, offset) IN
    IF o.kind # "ok" THEN <<>>
    ELSE IF o.page.next = Null \/ left = 0 THEN o.page.data
    ELSE o.page.data \o FollowNext(filter, size, o.page.next, left - 1)

\* C26: for every filter and page size the pages of list, followed from the start
\* on an unchanged store, put together are all matching records, each once, in
\* the order they were created; updates made before do not change that order.
C26_CreationOrder ==
    \A filter \in ListFilters, size \in 1..MaxSize :
        LET all == FollowNext(filter, size, Null, MaxId + MaxStore) IN
        /\ Range(all) = Filtered(filter)
        /\ Len(all) = Cardinality(Filtered(filter))
        /\ \A i, j \in 1..Len(all) : i < j => all[i].created_at < all[j].created_at

\* the client updated the first created of two APIs: listed one by one it still
\* comes first
C26_Witness ==
    /\ impl = "client"
    /\ last.op = "apis.update" /\ last.kind = "ok"
    /\ Len(apis) = 2
    /\ last.rec.created_at < apis[2].created_at
    /\ FollowNext(NoFilter, 1, Null, MaxId + MaxStore) = <<last.rec, apis[2]>>

\* a token is good for a filter when the server hands it out on the present
\* store: it stands for a position before the last matching record
GoodToken(token, filter) ==
    \E p \in 1..(Cardinality(Filtered(filter)) - 1) : token = EncodeOffset(p)

\* C27: a list with an offset token that is no token of the server, or that
\* stands for a position at or past the present number of matching records,
\* returns an empty page with a null next and no error.
C27_StaleTokenEmptyPage ==
    /\ \A filter \in ListFilters, size \in 1..MaxSize :
       \A token \in {7, TokenBase} \cup {EncodeOffset(p) : p \in 1..(MaxStore + 1)} :
           ~GoodToken(token, filter) =>
               LET o == ApisList(impl, apis, filter, size, token) IN
               /\ o.kind = "ok"
               /\ o.page.data = <<>>
               /\ o.page.next = Null
    /\ (/\ last.op = "apis.list" /\ last.offset # Null
        /\ ~GoodToken(last.offset, last.filter)) =>
           /\ last.kind = "ok"
           /\ last.page.data = <<>>
           /\ last.page.next = Null

\* the client listed with the token of position 1 after one of two stored APIs
\* was deleted: an empty page
C27_Witness ==
    /\ impl = "client"
    /\ last.op = "apis.list" /\ last.kind = "ok"
    /\ last.offset = EncodeOffset(1)
    /\ Len(apis) = 1 /\ nextId = 3
    /\ last.page.data = <<>>
    /\ last.page.next = Null

\* C28, as claimed: a list or a count with a filter key outside the allowed
\* filter fields of APIs raises InvalidArgumentError, and one whose keys are all
\* allowed does not raise.
C28_AsClaimed ==
    last.op \in {"apis.list", "apis.count"} =>
        IF DOMAIN last.filter \subseteq {"id", "name", "inbound_dns", "upstream_url"}
        THEN last.kind = "ok"
        ELSE last.kind = "InvalidArgumentError"

C29_Step ==
    LET c == last'
        onApis == c.op \in ApiOps
        updating == c.op \in {"apis.update", "consumers.update"}
        before == IF onApis THEN apis ELSE consumers
        after == IF onApis THEN apis' ELSE consumers'
        alt == IF onApis THEN "name" ELSE "username"
        unique == IF onApis THEN ApiUnique ELSE ConsumerUnique
        fields == IF onApis THEN ContractApiAddParams ELSE ConsumerUnique
        i == IF updating THEN Resolve(before, c.key, alt) ELSE 0
        taken == {f \in unique \cap DOMAIN c.req :
                     /\ c.req[f] # Null
                     /\ \E j \in 1..Len(before) : j # i /\ before[j][f] = c.req[f]} IN
    (/\ c.op \in {"apis.add", "consumers.create", "apis.update", "consumers.update"}
     /\ updating => (i # 0 /\ DOMAIN c.req \subseteq fields)
     /\ Cardinality(taken) >= 2) =>
        /\ c.kind = "ConflictError"
        /\ c.fields = taken
        /\ after = before

\* C29, as claimed: a create or an update whose values are those of stored records
\* on several unique fields at once fails with one ConflictError that names every
\* one of those fields, and stores nothing.
C29_AsClaimed == [][C29_Step]_vars

C30_Step ==
    LET c == last'
        i == Addressed(plugins, c) IN
    (/\ c.op = "plugins.update"
     /\ i # 0
     /\ c.req.consumer_id = Null
     /\ DOMAIN c.req.fields \subseteq PluginSchemaRegistry[plugins[i].name]) =>
        /\ c.kind = "ok"
        /\ c.rec \in Range(plugins')
        /\ DOMAIN c.rec.config = DOMAIN plugins[i].config \cup DOMAIN c.req.fields
        /\ \A k \in DOMAIN c.req.fields : c.rec.config[k] = c.req.fields[k]
        /\ \A k \in DOMAIN plugins[i].config \ DOMAIN c.req.fields :
               c.rec.config[k] = plugins[i].config[k]

\* C30, as claimed: an update of a stored plugin configuration that gives some of the
\* keys of its config map returns and stores a record in which the given keys hold
\* the given values and every other key stored before holds its old value.
C30_AsClaimed == [][C30_Step]_vars

\* the store without the record a key names
Without(store, id_or_key, alt) ==
    LET i == Resolve(store, id_or_key, alt) IN
    IF i = 0 THEN store ELSE RemoveAt(store, i)

C31_Step ==
    LET c == last' IN
    /\ c.op = "consumers.delete" =>
           /\ plugins' = plugins /\ credentials' = credentials /\ apis' = apis
           /\ Resolve(consumers, c.key, "username") # 0 =>
                  /\ c.kind = "ok"
                  /\ consumers' = Without(consumers, c.key, "username")
    /\ c.op = "apis.delete" =>
           /\ plugins' = plugins /\ credentials' = credentials /\ consumers' = consumers
           /\ Resolve(apis, c.key, "name") # 0 =>
                  /\ c.kind = "ok"
                  /\ apis' = Without(apis, c.key, "name")

Fresh(t) == t.state = "running" /\ t.found = <<>> /\ t.next = Null /\ t.clean

C32_Step ==
    /\ (\/ last'.op = "apis.iterate" /\ last' # last
        \/ /\ traversal' # traversal
           /\ traversal'.state = "running" /\ traversal'.found = <<>>) =>
           /\ Fresh(traversal')
           /\ traversal'.filter = last'.filter
           /\ traversal'.window_size = last'.size
    /\ (traversal.state = "running" /\ traversal' # traversal /\ ~Fresh(traversal')) =>
           /\ traversal'.state = "done" \/ Len(traversal'.found) > Len(traversal.found)
           /\ traversal'.state \in {"running", "done"}
           /\ Len(traversal'.found) <= StoreCount(apis, traversal.filter)

\* C32: a traversal of a store that is not changed ends: every list call it makes
\* yields records it had not yielded or is its last, so the calls are at most the
\* matching records plus one, and a running traversal is done in the end; every
\* iterate starts at the beginning whatever traversal came before or is under way,
\* and a traversal that ended on an unchanged store yielded the matching records in
\* stored order (two of them the same sequence).
C32_Terminates ==
    /\ (traversal.state = "running") ~> (traversal.state = "done")
    /\ [][C32_Step]_vars
    /\ [](traversal.state = "done" /\ traversal.clean =>
              [i \in 1..Len(traversal.found) |-> traversal.found[i].id]
                  = [i \in 1..StoreCount(apis, traversal.filter) |->
                        Matching(apis, traversal.filter)[i].id])

\* a traversal of three records through the client in windows of two came to its end
C32_Witness ==
    /\ impl = "client"
    /\ traversal.state = "done" /\ traversal.clean
    /\ traversal.window_size = 2
    /\ Len(traversal.found) = 3
    /\ last.op = "apis.iterate" /\ last.size = 2

C33_Step ==
    \A c \in Callers :
        (pending[c].pc = "checked" /\ pending'[c].pc = "idle") =>
            /\ pending'[c].kind \in {"ok", "ConflictError"}
            /\ pending'[c].kind = "ok" <=>
                   ConflictingFields(apis, pending[c].req, ApiUnique, Null) = {}
            /\ IF pending'[c].kind = "ok"
               THEN /\ Len(apis') = Len(apis) + 1
                    /\ SubSeq(apis', 1, Len(apis)) = apis
                    /\ \A f \in ApiUnique : apis'[Len(apis')][f] = pending[c].req[f]
               ELSE apis' = apis

C34_AsClaimed ==
    traversal.state = "done" =>
        \A i \in 1..Len(apis) :
            (apis[i].id \in traversal.start /\ Matches(apis[i], traversal.filter)) =>
                Cardinality({j \in 1..Len(traversal.found) :
                                 traversal.found[j].id = apis[i].id}) = 1

\* C34 (as the traversal behaves): whatever is created or deleted between the list
\* calls, no record is yielded twice; a record that is stored when the traversal
\* starts and is still stored when it has ended is yielded exactly once provided
\* that no record created before it was deleted since the traversal started.
C34_YieldedOnce ==
    /\ \A j, k \in 1..Len(traversal.found) :
           traversal.found[j].id = traversal.found[k].id => j = k
    /\ traversal.state = "done" =>
           \A i \in 1..Len(apis) :
               (/\ apis[i].id \in traversal.start
                /\ Matches(apis[i], traversal.filter)
                /\ \A id \in traversal.start : id < apis[i].id => id \in Ids(apis)) =>
                   \E j \in 1..Len(traversal.found) : traversal.found[j].id = apis[i].id

\* the client's traversal has ended; it yielded a record created after it started,
\* a record of its start was deleted, and a record of its start that was created
\* before the deleted one is stored and was yielded
C34_Witness ==
    /\ impl = "client"
    /\ traversal.state = "done"
    /\ \E j \in 1..Len(traversal.found) : traversal.found[j].id \notin traversal.start
    /\ \E i \in 1..Len(apis) :
           /\ apis[i].id \in traversal.start
           /\ \E id \in traversal.start : id > apis[i].id /\ id \notin Ids(apis)
           /\ \E j \in 1..Len(traversal.found) : traversal.found[j].id = apis[i].id

\* a traversal ended without yielding a record that was stored all the while
C34_Skipped ==
    /\ traversal.state = "done"
    /\ \E i \in 1..Len(apis) :
           /\ apis[i].id \in traversal.start
           /\ Matches(apis[i], traversal.filter)
           /\ \A j \in 1..Len(traversal.found) : traversal.found[j].id # apis[i].id

C35_Step ==
    LET creates == \/ last'.op \in {"apis.add", "consumers.create"}
                   \/ /\ last'.op \in {"apis.add_or_update", "consumers.create_or_update"}
                      /\ last'.key = Null
        deletes == last'.op \in {"apis.delete", "consumers.delete"}
        by == IF last' = last \/ last'.kind # "ok" THEN 0
              ELSE IF creates THEN 1
              ELSE IF deletes THEN 0 - 1
              ELSE 0
        of == IF last'.op \in {"consumers.create", "consumers.update", "consumers.delete",
                               "consumers.retrieve", "consumers.create_or_update"}
              THEN 0 ELSE by
    IN  /\ ApisCount(impl, apis') = ApisCount(impl, apis) + of
        /\ ConsumersCount(impl, consumers') = ConsumersCount(impl, consumers) + (by - of)

\* C35: count() is 0 on the empty store and never negative; a successful create,
\* and a successful create_or_update without an identifier, raise it by exactly 1,
\* a successful delete lowers it by exactly 1, and every other call (update,
\* create_or_update with an identifier, retrieve, list, and every call that fails)
\* leaves it as it was: count() is the successful creates less the successful deletes.
C35_CountIsCreatesLessDeletes ==
    /\ ApisCount(impl, apis) = 0 /\ ConsumersCount(impl, consumers) = 0
    /\ [](ApisCount(impl, apis) >= 0 /\ ConsumersCount(impl, consumers) >= 0)
    /\ [][C35_Step]_vars

\* the client counts one Consumer after two were made and a delete took one away
C35_Witness ==
    /\ impl = "client"
    /\ last.op = "consumers.delete" /\ last.kind = "ok"
    /\ nextId = 3
    /\ ConsumersCount(impl, consumers) = 1
    /\ last.pre = 2

\* the records of store that hold value as their id or as their alternate key
Holding(store, value, alt) ==
    {i \in 1..Len(store) : store[i].id = value \/ store[i][alt] = value}

C36_Step ==
    LET c == last' IN
    (c # last /\ c.op = "consumers.update" /\ c.kind = "ok") =>
        LET i == Resolve(consumers, c.key, "username")
            a == consumers[i].username
            b == consumers'[i].username
        IN  (a # Null /\ b # Null /\ a # b) =>
                /\ ConsumersRetrieve(impl, consumers', b).kind = "ok"
                /\ ConsumersRetrieve(impl, consumers', b).rec.id = consumers[i].id
                /\ ConsumersRetrieve(impl, consumers', a).kind = "NotFoundError"
                /\ ConsumersCreate(impl, consumers', [username |-> a, custom_id |-> Null],
                                   nextId').kind = "ok"

\* C36, as claimed: in every reachable state a key value resolves to a record exactly
\* when a stored record holds that value, and to a record that holds it; after an
\* update changes a Consumer's username from a to b, retrieve(b) returns the record,
\* retrieve(a) fails with NotFoundError, and a create using a succeeds.
C36_AsClaimed ==
    /\ [](\A v \in ConsumerKeys \cup {52} :
              LET o == ConsumersRetrieve(impl, consumers, v) IN
              /\ o.kind = "ok" <=> Holding(consumers, v, "username") # {}
              /\ o.kind = "ok" =>
                     \E i \in Holding(consumers, v, "username") : o.rec = consumers[i])
    /\ [](\A v \in ApiKeys \cup {12} :
              LET o == ApisRetrieve(impl, apis, v) IN
              /\ o.kind = "ok" <=> Holding(apis, v, "name") # {}
              /\ o.kind = "ok" => \E i \in Holding(apis, v, "name") : o.rec = apis[i])
    /\ [][C36_Step]_vars

\* C37, as claimed: resolution of an id_or_key value is unambiguous in every
\* reachable state: no value is the id of one record and the name of another, so
\* at most one record holds a given value, as its id or as its name.
C37_AsClaimed ==
    \A v \in (1..(MaxStore + 1)) \cup {11, 12} : Cardinality(Holding(apis, v, "name")) <= 1
=============================================================================
